---- MODULE Spec2Model ----
(***************************************************************************)
(* Scribber: the asynchronous media-processing pipeline.                   *)
(*                                                                         *)
(* Server side (Job Dispatcher, Stage Executor, Status Channel): the       *)
(* backend sources are not part of src/, so these definitions follow       *)
(* spec.md sections 3-7.                                                   *)
(* Client side (useProjects, useApi, useWebSocket, DashboardPage): follows *)
(* the JavaScript sources under src/.                                      *)
(***************************************************************************)
EXTENDS Integers, Sequences, FiniteSets, TLC

\* ---------------------------------------------------------------- bounds
MaxJobs == 2       \* stage jobs accepted in one behaviour
MaxCalls == 2      \* HTTP requests of the client outstanding at once
MaxEdits == 1      \* user text edits in one behaviour
MaxSockets == 2    \* WebSocket objects alive at once
MaxTimers == 1     \* reconnect timeouts pending at once
MaxTokens == 2
MaxInbox == 2      \* frames the scenario of the incoming messages queues in one socket
MaxRuns == 2
MaxStarts == 2     \* calls of startRecording that may await the microphone at once
MaxIntervals == 2  \* duration timers that may run at once
MaxDuration == 2   \* seconds the duration counter is followed for

\* ------------------------------------------------------------ vocabulary
Nil == "nil"                               \* null / undefined / absent
Empty == ""                                \* the empty string: falsy, not nullish
EditTexts == {"U", Empty}                  \* what a user may save in a text field
Entities == {"p1", "p2"}
StageKinds == {"transcription", "summarization"}
Stages == {"pending", "uploading", "transcribing", "summarizing", "completed", "failed"}
ProviderErrorCategories ==
  {"Unauthorized", "RateLimited", "InvalidInput", "Unavailable", "Timeout", "Unknown"}
AdapterErrorCategories == {"Unauthorized", "Unavailable"}

VARIABLES
  entity,          \* server: entityId -> ProcessingEntity
  jobs,            \* server: sequence of StageJob, jobId = index
  events,          \* server: StatusEvents published so far
  edits,           \* number of user text edits requested so far
  lastAccepted,    \* history: entityId -> version of the last accepted start the client saw
  calls,           \* HTTP requests of the client: slot -> call
  currentProject,  \* useProjects: currentProject state
  loading,         \* useProjects: loading state
  error,           \* useProjects: error state
  dirty,           \* React: a state change awaits its re-render
  connected,       \* useWebSocket: connected state
  wsRef,           \* useWebSocket: wsRef.current (0 = null)
  sockets,         \* the WebSocket objects the hook created: slot -> socket
  timers,          \* pending setTimeout reconnects: slot -> timer
  reconnectRef,    \* useWebSocket: reconnectTimeoutRef.current (0 = null)
  pingRef,         \* useWebSocket: pingIntervalRef.current (0 = null)
  leakedPing,      \* a ping interval no ref points to any more is running
  pollTimer,       \* DashboardPage: the interval behind pollingRef.current
  pollDeps,        \* DashboardPage: dependencies of the polling effect at the last render
  tokens,          \* server: correlation token -> its state and entity
  exportService,   \* DashboardPage: its useExport instance and the auth request in flight
  page,            \* GoogleDriveCallbackPage: URL parameters, state, its useExport instance
  runs,            \* GoogleDriveCallbackPage: the runs of handleCallback
  uploads,         \* server: exports uploaded so far
  deleted,         \* server: entities that were deleted
  cancelRequested, \* server: jobs whose cancellation was requested
  renderError,     \* React: an error thrown while rendering unmounted the dashboard
  recorder         \* useAudioRecorder: its state cells, refs, timers and MediaRecorders

serverVars == <<entity, jobs, events, edits>>
uiVars == <<currentProject, loading, error, dirty, lastAccepted>>
hookVars == <<connected, wsRef, timers, reconnectRef, pingRef, leakedPing>>
pollVars == <<pollTimer, pollDeps>>
exportVars == <<tokens, exportService, page, runs, uploads>>
deleteVars == <<deleted, cancelRequested>>
sideVars == <<tokens, exportService, page, runs, uploads, deleted, cancelRequested,
              renderError, recorder>>
clientVars == <<currentProject, loading, error, dirty, lastAccepted, connected, wsRef, sockets, timers,
                reconnectRef, pingRef, leakedPing, pollTimer, pollDeps>>
vars == <<entity, jobs, events, edits, calls, currentProject, loading, error, dirty,
          lastAccepted,
          connected, wsRef, sockets, timers, reconnectRef, pingRef, leakedPing,
          pollTimer, pollDeps,
          tokens, exportService, page, runs, uploads, deleted, cancelRequested,
          renderError, recorder>>

\* --------------------------------------------------------- audio recorder
StartIds == 1..MaxStarts
IntervalIds == 1..MaxIntervals

\* useAudioRecorder after mount. starts: the calls of startRecording and where they
\* stand; media: the state of the MediaRecorder each call created ("none" before it
\* exists, "stopped" = inactive with its stop event queued); intervals: the setInterval
\* timers that were set and not cleared; timerRef, mediaRecorderRef: 0 = null
IdleRecorder ==
  [isRecording |-> FALSE, isPaused |-> FALSE, duration |-> 0, audioUrl |-> FALSE,
   error |-> Nil, timerRef |-> 0, mediaRecorderRef |-> 0, intervals |-> {},
   media |-> [k \in StartIds |-> "none"], starts |-> [k \in StartIds |-> "idle"]]

InitRecorder == recorder = IdleRecorder

\* ------------------------------------------------------------ data model
NewEntity ==
  [stage |-> "pending", transcriptionText |-> Nil, summaryText |-> Nil,
   failureReason |-> Nil, activeJobId |-> 0, version |-> 1]

NoData ==
  [id |-> Nil, status |-> Nil, transcription |-> Nil, summary |-> Nil,
   error_message |-> Nil, version |-> 0]

\* the project document the server returns for an entity
ProjectData(id, e) ==
  [id |-> id, status |-> e.stage, transcription |-> e.transcriptionText,
   summary |-> e.summaryText, error_message |-> e.failureReason,
   version |-> e.version]

NoProject ==
  [exists |-> FALSE, id |-> Nil, status |-> Nil, transcription |-> Nil,
   summary |-> Nil, error_message |-> Nil]

\* a mapping of the response that loses the status field
AsCurrentProjectNoStatus(data) ==
  [exists |-> TRUE, id |-> data.id, status |-> "pending",
   transcription |-> data.transcription, summary |-> data.summary,
   error_message |-> data.error_message]

\* setCurrentProject(data): the response document becomes currentProject
AsCurrentProject(data) ==
  [exists |-> TRUE, id |-> data.id, status |-> data.status,
   transcription |-> data.transcription, summary |-> data.summary,
   error_message |-> data.error_message]

FreeCall ==
  [st |-> "free", op |-> Nil, pid |-> Nil, arg |-> Nil, rival |-> FALSE,
   floor |-> 0, ok |-> FALSE, err |-> Nil, data |-> NoData,
   verBefore |-> 0, ver |-> 0]

\* JavaScript truthiness of an optional string
Truthy(x) == x \notin {Nil, Empty}

InProgressStage(kind) ==
  IF kind = "transcription" THEN "transcribing" ELSE "summarizing"

SuccessStage(kind) ==
  IF kind = "transcription" THEN "pending" ELSE "completed"

KindOfOp(op) ==
  IF op = "transcribe" THEN "transcription" ELSE "summarization"

\* ---------------------------------------------------- export, deletion
TokenIds == 1..MaxTokens
RunIds == 1..MaxRuns

\* a state parameter the server never issued
UnknownState == 0

\* correlation token: unissued -> issued -> consumed | expired
FreeToken == [state |-> "unissued", pid |-> Nil]

\* useExport of the dashboard: loading, error, and the auth request (st, pid, answer)
IdleExport ==
  [loading |-> FALSE, error |-> Nil, st |-> "idle", pid |-> Nil, ok |-> FALSE,
   err |-> Nil, state |-> UnknownState]

\* the callback page before the browser loads it
NoPage ==
  [loaded |-> FALSE, state |-> UnknownState, denied |-> FALSE, missing |-> FALSE,
   effects |-> 0,
   status |-> "processing", message |-> "Completing", uploadResult |-> 0,
   loading |-> FALSE, error |-> Nil]

\* one run of handleCallback: where it stands, and the answer it awaits
FreeRun ==
  [pc |-> "idle", state |-> UnknownState, ok |-> FALSE, err |-> Nil,
   project_id |-> Nil, access_token |-> 0]

InitExport ==
  /\ tokens = [t \in TokenIds |-> FreeToken]
  /\ exportService = IdleExport
  /\ page = NoPage
  /\ runs = [r \in RunIds |-> FreeRun]
  /\ uploads = {}

InitDelete ==
  /\ deleted = {}
  /\ cancelRequested = {}

\* ------------------------------------------------- HTTP call bookkeeping
CallSlots == 1..MaxCalls
HasFreeCall == \E c \in CallSlots : calls[c].st = "free"
FirstFreeCall == CHOOSE c \in CallSlots :
  calls[c].st = "free" /\ \A d \in CallSlots : calls[d].st = "free" => c <= d

\* api.get / api.post / api.put: the request leaves the client
SendCall(op, pid, arg) ==
  LET twin(d) == calls[d].st = "sent" /\ calls[d].op = op /\ calls[d].pid = pid
      isStart == op \in {"transcribe", "summarize"}
      c == FirstFreeCall
  IN [d \in CallSlots |->
        IF d = c
          THEN [FreeCall EXCEPT !.st = "sent", !.op = op, !.pid = pid, !.arg = arg,
                                !.rival = (isStart /\ \E x \in CallSlots : twin(x))]
          ELSE IF isStart /\ twin(d) THEN [calls[d] EXCEPT !.rival = TRUE]
          ELSE calls[d]]

Respond(c, ok, err, data, before, after) ==
  [calls EXCEPT ![c] = [@ EXCEPT !.st = "done", !.ok = ok, !.err = err, !.data = data,
                                 !.verBefore = before, !.ver = after]]

\* ------------------------------------------------ Status Channel (server)
SockSlots == 1..MaxSockets

\* the JSON document of a StatusEvent; delta fields that are absent are null
EventMessage(type, e, transcription, summary, error_message) ==
  [type |-> type, status |-> e.stage, transcription |-> transcription,
   summary |-> summary, error_message |-> error_message, version |-> e.version]

\* the initial snapshot a new subscription receives
Snapshot(e) ==
  EventMessage("status", e, e.transcriptionText, e.summaryText, e.failureReason)

\* fan-out of one StatusEvent to the live subscriptions of the entity
Broadcast(id, msg) ==
  [s \in SockSlots |->
     IF sockets[s].state = "open" /\ sockets[s].pid = id
       THEN [sockets[s] EXCEPT !.inbox = Append(@, msg)]
       ELSE sockets[s]]

\* a dispatcher that does not look at activeJobId
StartStageOutcomeNoConflict(e, kind) ==
  IF kind = "summarization" /\ ~Truthy(e.transcriptionText) THEN "ValidationError"
  ELSE IF e.stage \notin {"pending", "failed", "transcribing", "summarizing"}
    THEN "ValidationError"
  ELSE "accepted"

\* ------------------------------------------------ Job Dispatcher (server)
\* validation, then the atomic at-most-one check, then the transition table
StartStageOutcome(e, kind) ==
  IF kind = "summarization" /\ ~Truthy(e.transcriptionText) THEN "ValidationError"
  ELSE IF e.activeJobId # 0 THEN "ConflictError"
  ELSE IF e.stage \notin {"pending", "failed"} THEN "ValidationError"
  ELSE "accepted"

\* an acceptance that does not record the job on the entity
AcceptStageNoLock(e, kind, jid) ==
  [e EXCEPT !.stage = InProgressStage(kind),
            !.version = e.version + 1, !.failureReason = Nil]

\* acceptance: in-progress stage, activeJobId assigned, version incremented
AcceptStage(e, kind, jid) ==
  [e EXCEPT !.stage = InProgressStage(kind), !.activeJobId = jid,
            !.version = e.version + 1, !.failureReason = Nil]

ResultText(kind) == IF kind = "transcription" THEN "T" ELSE "S"

\* provider success: result written, activeJobId cleared, stage advanced
CompleteStage(e, kind) ==
  [e EXCEPT !.transcriptionText = IF kind = "transcription" THEN ResultText(kind) ELSE @,
            !.summaryText = IF kind = "summarization" THEN ResultText(kind) ELSE @,
            !.stage = SuccessStage(kind), !.activeJobId = 0, !.version = e.version + 1]

\* a failure path that leaves the job recorded on the entity
FailStageKeepsJob(e, category) ==
  [e EXCEPT !.stage = "failed", !.failureReason = category, !.version = e.version + 1]

\* a failure path that forgets to increment the version
FailStageNoVersion(e, category) ==
  [e EXCEPT !.stage = "failed", !.failureReason = category, !.activeJobId = 0]

\* provider failure or timeout: Failed with a normalized category
FailStage(e, category) ==
  [e EXCEPT !.stage = "failed", !.failureReason = category,
            !.activeJobId = 0, !.version = e.version + 1]

\* explicit user edit of one text field: no stage change
ApplyEdit(e, field, text) ==
  [e EXCEPT !.transcriptionText = IF field = "transcription" THEN text ELSE @,
            !.summaryText = IF field = "summary" THEN text ELSE @,
            !.version = e.version + 1]

\* StatusEvent {entityId, stage, version, payloadDelta}
StatusEvent(id, e, msg) ==
  [entityId |-> id, stage |-> e.stage, version |-> e.version, payloadDelta |-> msg]

\* the documents published on acceptance, on success and on failure (e2: entity after)
AcceptedMessage(e2) == EventMessage("status", e2, Nil, Nil, Nil)

CompletedMessage(e2, kind) ==
  EventMessage("completed", e2,
               IF kind = "transcription" THEN e2.transcriptionText ELSE Nil,
               IF kind = "summarization" THEN e2.summaryText ELSE Nil, Nil)

FailedMessage(e2, category) == EventMessage("error", e2, Nil, Nil, category)

\* StageJob at acceptance, and at its terminal outcome
NewJob(id, kind, version) ==
  [entityId |-> id, stageKind |-> kind, status |-> "Running", startVersion |-> version,
   providerCalls |-> 0, edits |-> 0, endVersion |-> 0, result |-> Nil]

EndJob(job, status, version, result) ==
  [job EXCEPT !.status = status, !.endVersion = version, !.result = result]

\* POST startStage(entityId, stageKind, providerId)
StartStage(c) ==
  /\ calls[c].st = "sent"
  /\ calls[c].op \in {"transcribe", "summarize"}
  /\ LET id == calls[c].pid
         kind == KindOfOp(calls[c].op)
         e == entity[id]
         out == StartStageOutcome(e, kind)
         jid == Len(jobs) + 1
         e2 == AcceptStage(e, kind, jid)
     IN IF out = "accepted"
          THEN /\ Len(jobs) < MaxJobs
               /\ entity' = [entity EXCEPT ![id] = e2]
               /\ jobs' = Append(jobs, NewJob(id, kind, e2.version))
               /\ events' = events \cup {StatusEvent(id, e2, AcceptedMessage(e2))}
               /\ sockets' = Broadcast(id, AcceptedMessage(e2))
               /\ calls' = Respond(c, TRUE, Nil, ProjectData(id, e2), e.version, e2.version)
          ELSE /\ calls' = Respond(c, FALSE, out, NoData, e.version, e.version)
               /\ UNCHANGED <<entity, jobs, events, sockets>>
  /\ UNCHANGED <<edits, uiVars, hookVars, pollVars>>
  /\ UNCHANGED sideVars

\* ------------------------------------------------- Stage Executor (server)
Running(j) == j \in 1..Len(jobs) /\ jobs[j].status = "Running"

\* the executor calls the Provider Adapter for the job, once
InvokeProvider(j) ==
  /\ Running(j)
  /\ jobs[j].providerCalls = 0
  /\ jobs' = [jobs EXCEPT ![j].providerCalls = 1]
  /\ UNCHANGED <<entity, events, edits, calls, clientVars>>
  /\ UNCHANGED sideVars

\* the provider returns a result before the ceiling
JobSucceeds(j) ==
  /\ Running(j)
  /\ jobs[j].providerCalls = 1
  /\ LET id == jobs[j].entityId
         kind == jobs[j].stageKind
         e == entity[id]
         e2 == CompleteStage(e, kind)
     IN /\ entity' = [entity EXCEPT ![id] = e2]
        /\ jobs' = [jobs EXCEPT ![j] = EndJob(@, "Succeeded", e2.version, ResultText(kind))]
        /\ events' = events \cup {StatusEvent(id, e2, CompletedMessage(e2, kind))}
        /\ sockets' = Broadcast(id, CompletedMessage(e2, kind))
  /\ UNCHANGED <<edits, calls, uiVars, hookVars, pollVars>>
  /\ UNCHANGED sideVars

\* the job ends as Failed with a normalized category
FailJob(j, category) ==
  LET id == jobs[j].entityId
      e == entity[id]
      e2 == FailStage(e, category)
  IN /\ entity' = [entity EXCEPT ![id] = e2]
     /\ jobs' = [jobs EXCEPT ![j] = EndJob(@, "Failed", e2.version, category)]
     /\ events' = events \cup {StatusEvent(id, e2, FailedMessage(e2, category))}
     /\ sockets' = Broadcast(id, FailedMessage(e2, category))

\* provider failure reported by the adapter
JobFails(j, category) ==
  /\ Running(j)
  /\ jobs[j].providerCalls = 1
  /\ FailJob(j, category)
  /\ UNCHANGED <<edits, calls, uiVars, hookVars, pollVars>>
  /\ UNCHANGED sideVars

\* the provider call exceeds the ceiling of its provider class
JobTimesOut(j) ==
  /\ Running(j)
  /\ jobs[j].providerCalls = 1
  /\ FailJob(j, "Timeout")
  /\ UNCHANGED <<edits, calls, uiVars, hookVars, pollVars>>
  /\ UNCHANGED sideVars

\* -------------------------------------------- other server entry points
\* GET currentStatus(entityId) -> {stage, version, failureReason?}
CurrentStatus(c) ==
  /\ calls[c].st = "sent"
  /\ calls[c].op = "status"
  /\ LET id == calls[c].pid
         e == entity[id]
     IN calls' = Respond(c, TRUE, Nil,
                         [NoData EXCEPT !.id = id, !.status = e.stage,
                                        !.error_message = e.failureReason,
                                        !.version = e.version],
                         e.version, e.version)
  /\ UNCHANGED <<serverVars, clientVars>>
  /\ UNCHANGED sideVars

\* GET /projects/{id}: Artifact Store Gateway load
GetProject(c) ==
  /\ calls[c].st = "sent"
  /\ calls[c].op = "get"
  /\ LET id == calls[c].pid
         e == entity[id]
     IN calls' = Respond(c, TRUE, Nil, ProjectData(id, e), e.version, e.version)
  /\ UNCHANGED <<serverVars, clientVars>>
  /\ UNCHANGED sideVars

\* GET /projects
ListProjects(c) ==
  /\ calls[c].st = "sent"
  /\ calls[c].op = "list"
  /\ calls' = Respond(c, TRUE, Nil, NoData, 0, 0)
  /\ UNCHANGED <<serverVars, clientVars>>
  /\ UNCHANGED sideVars

\* the request of the polling fallback is lost or answered with an error status:
\* request() of useApi throws
RequestFails(c) ==
  /\ calls[c].st = "sent"
  /\ calls[c].op \in {"status", "get", "list"}
  /\ calls' = Respond(c, FALSE, "Request failed", NoData, 0, 0)
  /\ UNCHANGED <<serverVars, clientVars>>
  /\ UNCHANGED sideVars

\* PUT /projects/{id}: explicit user edit of a text field, no stage change
EditText(c) ==
  /\ calls[c].st = "sent"
  /\ calls[c].op = "put"
  /\ LET id == calls[c].pid
         e == entity[id]
         e2 == ApplyEdit(e, calls[c].arg.field, calls[c].arg.text)
         j == e.activeJobId
     IN /\ entity' = [entity EXCEPT ![id] = e2]
        /\ jobs' = IF j = 0 THEN jobs ELSE [jobs EXCEPT ![j].edits = @ + 1]
        /\ calls' = Respond(c, TRUE, Nil, ProjectData(id, e2), e.version, e2.version)
  /\ UNCHANGED <<events, edits, clientVars>>
  /\ UNCHANGED sideVars

\* ------------------------------------------------ useProjects (client)
\* TranscriptionWidget: canTranscribe (audio_url is set for every project)
canTranscribe(project) == project.exists /\ project.status = "pending"

\* TranscriptionWidget: the Retry button of the empty state
RetryOffered(project) ==
  /\ project.exists
  /\ project.status # "transcribing"
  /\ ~Truthy(project.transcription)
  /\ project.status = "failed"

\* a Summarize button that does not look at the transcription
canSummarizeNoTranscript(project) ==
  /\ project.exists
  /\ ~Truthy(project.summary)
  /\ project.status # "summarizing"

\* SummaryWidget: canSummarize
canSummarize(project) ==
  /\ project.exists
  /\ Truthy(project.transcription)
  /\ ~Truthy(project.summary)
  /\ project.status # "summarizing"

\* handleSelectProject -> fetchProject(projectId), up to the await
SelectProject(p) ==
  /\ HasFreeCall
  /\ calls' = SendCall("get", p, Nil)
  /\ loading' = TRUE
  /\ error' = Nil
  /\ dirty' = (dirty \/ ~loading \/ error # Nil)
  /\ UNCHANGED <<serverVars, currentProject, lastAccepted, sockets, hookVars, pollVars>>
  /\ UNCHANGED sideVars

\* Transcribe / Retry button -> startTranscription(project.id, model.id)
ClickTranscribe ==
  /\ canTranscribe(currentProject) \/ RetryOffered(currentProject)
  /\ ~loading
  /\ currentProject.id \in Entities
  /\ HasFreeCall
  /\ calls' = SendCall("transcribe", currentProject.id, Nil)
  /\ loading' = TRUE
  /\ error' = Nil
  /\ dirty' = TRUE
  /\ UNCHANGED <<serverVars, currentProject, lastAccepted, sockets, hookVars, pollVars>>
  /\ UNCHANGED sideVars

\* Summarize button -> startSummarization(project.id, model.id)
ClickSummarize ==
  /\ canSummarize(currentProject)
  /\ ~loading
  /\ currentProject.id \in Entities
  /\ HasFreeCall
  /\ calls' = SendCall("summarize", currentProject.id, Nil)
  /\ loading' = TRUE
  /\ error' = Nil
  /\ dirty' = TRUE
  /\ UNCHANGED <<serverVars, currentProject, lastAccepted, sockets, hookVars, pollVars>>
  /\ UNCHANGED sideVars

\* a status function that flags loading as the other functions of the hook do
QueryStatusSetsLoading(p) ==
  /\ HasFreeCall
  /\ calls' = [SendCall("status", p, Nil) EXCEPT ![FirstFreeCall].floor = lastAccepted[p]]
  /\ loading' = TRUE
  /\ error' = Nil
  /\ dirty' = TRUE
  /\ UNCHANGED <<serverVars, currentProject, lastAccepted, sockets, hookVars, pollVars>>
  /\ UNCHANGED sideVars

\* getProjectStatus(projectId) called by a consumer of the hook, up to the await
QueryStatus(p) ==
  /\ HasFreeCall
  /\ calls' = [SendCall("status", p, Nil) EXCEPT ![FirstFreeCall].floor = lastAccepted[p]]
  /\ UNCHANGED <<serverVars, clientVars>>
  /\ UNCHANGED sideVars

\* Edit + Save of a widget -> updateProject(project.id, {field: editText})
SaveEdit(field, text) ==
  /\ currentProject.exists
  /\ currentProject.id \in Entities
  /\ IF field = "transcription"
       THEN Truthy(currentProject.transcription) /\ currentProject.status # "transcribing"
       ELSE Truthy(currentProject.summary) /\ currentProject.status # "summarizing"
  /\ edits < MaxEdits
  /\ HasFreeCall
  /\ calls' = SendCall("put", currentProject.id, [field |-> field, text |-> text])
  /\ edits' = edits + 1
  /\ loading' = TRUE
  /\ error' = Nil
  /\ dirty' = (dirty \/ ~loading \/ error # Nil)
  /\ UNCHANGED <<entity, jobs, events, currentProject, lastAccepted, sockets, hookVars,
                 pollVars>>
  /\ UNCHANGED sideVars

\* the request of slot c is replaced by the next request of the same async function
Chain(c, op, pid, arg) ==
  [calls EXCEPT ![c] = [FreeCall EXCEPT !.st = "sent", !.op = op, !.pid = pid, !.arg = arg]]

\* a start function that forgets setCurrentProject(data) after the await
ResolveProjectNoSet(c) ==
  LET call == calls[c]
      isStart == call.op \in {"transcribe", "summarize"}
  IN /\ calls' = [calls EXCEPT ![c] = FreeCall]
     /\ loading' = FALSE
     /\ dirty' = TRUE
     /\ lastAccepted' =
          IF call.ok /\ isStart /\ call.data.version > lastAccepted[call.pid]
            THEN [lastAccepted EXCEPT ![call.pid] = call.data.version]
            ELSE lastAccepted
     /\ error' = IF call.ok THEN error ELSE call.err
     /\ currentProject' = IF call.ok /\ ~isStart THEN AsCurrentProject(call.data)
                                                 ELSE currentProject

\* a catch branch that also drops the project on display
ResolveProjectDropsOnError(c) ==
  LET call == calls[c]
  IN /\ calls' = [calls EXCEPT ![c] = FreeCall]
     /\ loading' = FALSE
     /\ dirty' = TRUE
     /\ lastAccepted' =
          IF call.ok /\ call.op \in {"transcribe", "summarize"}
             /\ call.data.version > lastAccepted[call.pid]
            THEN [lastAccepted EXCEPT ![call.pid] = call.data.version]
            ELSE lastAccepted
     /\ error' = IF call.ok THEN error ELSE call.err
     /\ currentProject' = IF call.ok THEN AsCurrentProject(call.data) ELSE NoProject

\* fetchProject / updateProject / startTranscription / startSummarization after the
\* await: setCurrentProject(data) on success, setError on failure, setLoading(false)
ResolveProject(c) ==
  LET call == calls[c]
  IN /\ calls' = [calls EXCEPT ![c] = FreeCall]
     /\ loading' = FALSE
     /\ IF call.ok
          THEN /\ currentProject' = AsCurrentProject(call.data)
               /\ dirty' = TRUE
               /\ lastAccepted' =
                    IF call.op \in {"transcribe", "summarize"}
                       /\ call.data.version > lastAccepted[call.pid]
                      THEN [lastAccepted EXCEPT ![call.pid] = call.data.version]
                      ELSE lastAccepted
               /\ UNCHANGED error
          ELSE /\ error' = call.err
               /\ dirty' = (dirty \/ loading \/ error # call.err)
               /\ UNCHANGED <<currentProject, lastAccepted>>

\* deleteProject after the await: the project leaves the list and, when it is the one on
\* display, setCurrentProject(null); setError on failure; setLoading(false)
ResolveDelete(c) ==
  LET call == calls[c]
  IN /\ calls' = [calls EXCEPT ![c] = FreeCall]
     /\ loading' = FALSE
     /\ dirty' = TRUE
     /\ currentProject' = IF call.ok /\ call.arg = "current" THEN NoProject
                                                             ELSE currentProject
     /\ error' = IF call.ok THEN error ELSE call.err
     /\ UNCHANGED lastAccepted

\* the continuation of an awaited api call: try / catch / finally
Resolve(c) ==
  /\ calls[c].st = "done"
  /\ LET call == calls[c]
     IN CASE call.op = "status" ->
               \* polling callback: status.status !== currentProject.status
               \* (a rejected request throws into the callback's catch: nothing is set)
               IF call.ok /\ call.arg # Nil /\ call.data.status # call.arg
                 THEN /\ calls' = Chain(c, "get", call.pid, "poll")
                      /\ loading' = TRUE
                      /\ error' = Nil
                      /\ dirty' = (dirty \/ ~loading \/ error # Nil)
                      /\ UNCHANGED <<currentProject, lastAccepted>>
                 ELSE /\ calls' = [calls EXCEPT ![c] = FreeCall]
                      /\ UNCHANGED uiVars
          [] call.op = "get" /\ call.arg = "poll" ->
               \* await fetchProject(id); fetchProjects()
               \* (fetchProject rethrows after setError: fetchProjects is skipped)
               IF call.ok
                 THEN /\ calls' = Chain(c, "list", Nil, Nil)
                      /\ currentProject' = AsCurrentProject(call.data)
                      /\ loading' = TRUE
                      /\ error' = Nil
                      /\ dirty' = TRUE
                      /\ UNCHANGED lastAccepted
                 ELSE /\ calls' = [calls EXCEPT ![c] = FreeCall]
                      /\ loading' = FALSE
                      /\ error' = call.err
                      /\ dirty' = TRUE
                      /\ UNCHANGED <<currentProject, lastAccepted>>
          [] call.op = "list" ->
               /\ calls' = [calls EXCEPT ![c] = FreeCall]
               /\ loading' = FALSE
               /\ error' = IF call.ok THEN error ELSE call.err
               /\ dirty' = TRUE
               /\ UNCHANGED <<currentProject, lastAccepted>>
          [] call.op = "delete" -> ResolveDelete(c)
          [] OTHER -> ResolveProject(c)
  /\ UNCHANGED <<serverVars, sockets, hookVars, pollVars>>
  /\ UNCHANGED sideVars

\* ------------------------------------------------ useWebSocket (client)
TimerSlots == 1..MaxTimers
\* closedBy: who ended the connection, the client's close() or the network / the server
FreeSock ==
  [state |-> "free", pid |-> Nil, code |-> 0, inbox |-> <<>>, ping |-> FALSE,
   closedBy |-> Nil]
FreeTimer == [active |-> FALSE, pid |-> Nil]
NoReconnectCodes == {1000, 4001, 4003}

\* the refs and state of the hook, as one value
Hook ==
  [sockets |-> sockets, wsRef |-> wsRef, timers |-> timers, reconnectRef |-> reconnectRef,
   pingRef |-> pingRef, leakedPing |-> leakedPing, connected |-> connected]

\* WebSocket.close(code): CONNECTING fails the connection (close event 1006),
\* OPEN starts the closing handshake, CLOSING and CLOSED ignore the call
CloseSock(sock, code) ==
  CASE sock.state = "connecting" ->
         [sock EXCEPT !.state = "closing", !.code = 1006, !.closedBy = "client"]
    [] sock.state = "open" ->
         [sock EXCEPT !.state = "closing", !.code = code, !.inbox = <<>>,
                      !.closedBy = "client"]
    [] OTHER -> sock

\* a closed socket that wsRef no longer holds is garbage
Collect(h) ==
  [h EXCEPT !.sockets = [s \in SockSlots |->
     IF h.sockets[s].state = "closed" /\ h.wsRef # s THEN FreeSock ELSE h.sockets[s]]]

HasFreeSock(h) == \E s \in SockSlots : h.sockets[s].state = "free"
FirstFreeSock(h) == CHOOSE s \in SockSlots :
  h.sockets[s].state = "free" /\ \A t \in SockSlots : h.sockets[t].state = "free" => s <= t

\* connect(), up to `new WebSocket(wsUrl)`: close the socket wsRef holds
ConnectClose(h) ==
  IF h.wsRef = 0 THEN h
  ELSE Collect([h EXCEPT !.sockets[h.wsRef] = CloseSock(@, 1005), !.wsRef = 0])

\* connect() of a render whose projectId is pid (a token is stored)
ConnectHook(h, pid) ==
  IF pid = Nil THEN h
  ELSE LET h1 == ConnectClose(h)
           n == FirstFreeSock(h1)
       IN [h1 EXCEPT !.sockets[n] = [FreeSock EXCEPT !.state = "connecting", !.pid = pid],
                     !.wsRef = n]

CanConnect(h, pid) == pid = Nil \/ HasFreeSock(ConnectClose(h))

\* disconnect()
DisconnectHook(h) ==
  LET h1 == IF h.reconnectRef = 0 THEN h
            ELSE [h EXCEPT !.timers[h.reconnectRef] = FreeTimer, !.reconnectRef = 0]
      h2 == IF h1.pingRef = 0 THEN h1
            ELSE [h1 EXCEPT !.sockets[h1.pingRef].ping = FALSE, !.pingRef = 0]
      h3 == IF h2.wsRef = 0 THEN h2
            ELSE [h2 EXCEPT !.sockets[h2.wsRef] = CloseSock(@, 1000), !.wsRef = 0]
  IN Collect([h3 EXCEPT !.connected = FALSE])

HasFreeTimer(h) == \E t \in TimerSlots : ~h.timers[t].active
FirstFreeTimer(h) == CHOOSE t \in TimerSlots :
  ~h.timers[t].active /\ \A u \in TimerSlots : ~h.timers[u].active => t <= u

\* ws.onclose of socket s
OnClose(h, s) ==
  LET sock == h.sockets[s]
      h1 == IF h.pingRef = 0 THEN h
            ELSE [h EXCEPT !.sockets[h.pingRef].ping = FALSE, !.pingRef = 0]
      h2 == [h1 EXCEPT !.connected = FALSE,
                       !.leakedPing = (@ \/ h1.sockets[s].ping),
                       !.sockets[s] = [FreeSock EXCEPT !.state = "closed"]]
      t == FirstFreeTimer(h2)
      h3 == IF sock.code \in NoReconnectCodes THEN h2
            ELSE [h2 EXCEPT !.timers[t] = [active |-> TRUE, pid |-> sock.pid],
                            !.reconnectRef = t]
  IN Collect(h3)

SetHook(h) ==
  /\ sockets' = h.sockets
  /\ wsRef' = h.wsRef
  /\ timers' = h.timers
  /\ reconnectRef' = h.reconnectRef
  /\ pingRef' = h.pingRef
  /\ leakedPing' = h.leakedPing
  /\ connected' = h.connected

\* the handshake of socket s completes: the server registers the subscription
\* and sends the snapshot, the client runs ws.onopen
SocketOpens(s) ==
  /\ sockets[s].state = "connecting"
  /\ LET pid == sockets[s].pid
     IN sockets' = [sockets EXCEPT ![s] = [@ EXCEPT !.state = "open", !.ping = TRUE,
                       !.inbox = IF pid \in Entities THEN <<Snapshot(entity[pid])>> ELSE <<>>]]
  /\ connected' = TRUE
  /\ pingRef' = s
  /\ dirty' = (dirty \/ ~connected)
  /\ UNCHANGED <<serverVars, calls, currentProject, loading, error, lastAccepted, wsRef,
                 timers, reconnectRef, leakedPing, pollVars>>
  /\ UNCHANGED sideVars

\* the connection of socket s is lost or refused by the network or the server
DropCodes == {1006, 4001}
ConnectionDrops(s, code) ==
  /\ sockets[s].state \in {"connecting", "open"}
  /\ sockets[s].state = "connecting" => code = 1006
  /\ sockets' = [sockets EXCEPT ![s] = [@ EXCEPT !.state = "closing", !.code = code,
                                                 !.inbox = <<>>, !.closedBy = "network"]]
  /\ UNCHANGED <<serverVars, calls, uiVars, hookVars, pollVars>>
  /\ UNCHANGED sideVars

\* the close event of socket s is dispatched
SocketCloses(s) ==
  /\ sockets[s].state = "closing"
  /\ sockets[s].code \in NoReconnectCodes \/ HasFreeTimer(Hook)
  /\ SetHook(OnClose(Hook, s))
  /\ dirty' = (dirty \/ connected)
  /\ UNCHANGED <<serverVars, calls, currentProject, loading, error, lastAccepted, pollVars>>
  /\ UNCHANGED sideVars

\* the 3000 ms reconnect timeout t fires: connect() of the closure that set it
ReconnectFires(t) ==
  /\ timers[t].active
  /\ LET h == [Hook EXCEPT !.timers[t] = FreeTimer,
                           !.reconnectRef = IF @ = t THEN 0 ELSE @]
     IN /\ CanConnect(h, timers[t].pid)
        /\ SetHook(ConnectHook(h, timers[t].pid))
  /\ UNCHANGED <<serverVars, calls, uiVars, pollVars>>
  /\ UNCHANGED sideVars

\* ------------------------------------------------ DashboardPage (client)
\* a ?? b
\* a merge that takes the field of the message whatever it holds
CoalesceTakesMessage(a, b) == a

Coalesce(a, b) == IF a # Nil THEN a ELSE b

UpdateTypes == {"status", "completed", "error"}

\* an updater that merges the status and the texts but not the error message
ApplyUpdateDropsError(prev, data) ==
  [exists |-> TRUE, id |-> prev.id, status |-> data.status,
   transcription |-> Coalesce(data.transcription, prev.transcription),
   summary |-> Coalesce(data.summary, prev.summary),
   error_message |-> prev.error_message]

\* the state updater of handleWebSocketUpdate: prev => ({...prev, ...})
ApplyUpdate(prev, data) ==
  [exists |-> TRUE, id |-> prev.id, status |-> data.status,
   transcription |-> Coalesce(data.transcription, prev.transcription),
   summary |-> Coalesce(data.summary, prev.summary),
   error_message |-> Coalesce(data.error_message, prev.error_message)]

\* a text frame that is no JSON document of the channel: the keepalive texts, a text that
\* JSON.parse rejects, and the JSON text null
TextFrame(t) == [text |-> t]
FrameTexts == {"ping", "pong", "not json", "null"}
IsText(frame) == "text" \in DOMAIN frame

\* ws.onmessage: what becomes of event.data
OnMessage(frame) ==
  CASE IsText(frame) /\ frame.text \in {"ping", "pong"} -> "keepalive"
    [] IsText(frame) /\ frame.text = "null" -> "handler throws"
    [] IsText(frame) -> "parse error"
    [] OTHER -> "update"

\* the updater runs on prev = null: prev.transcription is read, and throws, unless the
\* field of the message is set
UpdaterThrows(prev, data) ==
  /\ ~prev.exists
  /\ data.transcription = Nil \/ data.summary = Nil \/ data.error_message = Nil

\* handleWebSocketUpdate sets state: the type is one of three and the currentProject of
\* the closure, the project of the render that made the socket, is set
Applies(frame, closureId) ==
  OnMessage(frame) = "update" /\ frame.type \in UpdateTypes /\ closureId # Nil

\* ws.onmessage of socket s -> handleWebSocketUpdate(data)
Deliver(s) ==
  /\ sockets[s].state = "open"
  /\ sockets[s].inbox # <<>>
  /\ LET data == Head(sockets[s].inbox)
     IN /\ sockets' = [sockets EXCEPT ![s].inbox = Tail(@)]
        /\ UNCHANGED lastAccepted
        /\ IF Applies(data, sockets[s].pid)
             THEN /\ IF UpdaterThrows(currentProject, data)
                       THEN renderError' = TRUE /\ UNCHANGED currentProject
                       ELSE /\ currentProject' = ApplyUpdate(currentProject, data)
                            /\ UNCHANGED renderError
                  /\ dirty' = TRUE
                  /\ IF data.status \in {"completed", "failed"}
                       THEN /\ HasFreeCall
                            /\ calls' = SendCall("list", Nil, Nil)
                            /\ loading' = TRUE
                            /\ error' = Nil
                       ELSE UNCHANGED <<calls, loading, error>>
             ELSE UNCHANGED <<calls, currentProject, loading, error, dirty, renderError>>
  /\ UNCHANGED <<serverVars, hookVars, pollVars, exportVars, deleteVars, recorder>>

\* running: the number of intervals that were set and not cleared
NoPoll == [active |-> FALSE, pid |-> Nil, status |-> Nil, running |-> 0]

\* dependency array of the polling effect
PollDeps == [id |-> currentProject.id, status |-> currentProject.status, conn |-> connected]

shouldPoll ==
  /\ currentProject.exists
  /\ currentProject.status \in {"transcribing", "summarizing"}
  /\ ~connected

\* period of the polling interval, in ms
PollIntervalMs == 3000

\* an effect whose cleanup leaves the interval running
PollCleanupKeepsInterval(timer) == timer

\* cleanup of the polling effect: clearInterval(pollingRef.current)
PollCleanup(timer) == IF timer.running > 0 THEN NoPoll ELSE timer

\* body of the polling effect: setInterval(..., 3000) when shouldPoll
PollEffect(timer) ==
  IF shouldPoll
    THEN [active |-> TRUE, pid |-> currentProject.id, status |-> currentProject.status,
          running |-> timer.running + 1]
    ELSE timer

\* React renders DashboardPage and runs its effects: every render yields a new
\* api object, hence a new handleWebSocketUpdate and a new connect, so the
\* effect of useWebSocket is cleaned up (disconnect) and run again (connect);
\* the polling effect runs again when its dependencies changed
Render ==
  /\ dirty
  /\ LET h == DisconnectHook(Hook)
     IN /\ CanConnect(h, currentProject.id)
        /\ SetHook(ConnectHook(h, currentProject.id))
  /\ dirty' = connected
  /\ pollDeps' = PollDeps
  /\ pollTimer' = IF PollDeps = pollDeps THEN pollTimer
                  ELSE PollEffect(PollCleanup(pollTimer))
  /\ UNCHANGED <<serverVars, calls, currentProject, loading, error, lastAccepted>>
  /\ UNCHANGED sideVars

\* the 3000 ms polling interval fires: getProjectStatus(currentProject.id)
\* a polling callback that restarts the stage instead of asking for the status
PollTickRestarts ==
  /\ pollTimer.active
  /\ pollTimer.pid \in Entities
  /\ HasFreeCall
  /\ calls' = SendCall("transcribe", pollTimer.pid, Nil)
  /\ UNCHANGED <<serverVars, clientVars>>
  /\ UNCHANGED sideVars

PollTick ==
  /\ pollTimer.active
  /\ pollTimer.pid \in Entities
  /\ HasFreeCall
  /\ calls' = [SendCall("status", pollTimer.pid, pollTimer.status)
                 EXCEPT ![FirstFreeCall].floor = lastAccepted[pollTimer.pid]]
  /\ UNCHANGED <<serverVars, clientVars>>
  /\ UNCHANGED sideVars

\* ---------------------------------------------------------- specification
\* the dashboard is mounted: its mount effect has called fetchProjects()
Init ==
  /\ entity = [id \in Entities |-> NewEntity]
  /\ jobs = <<>>
  /\ events = {}
  /\ edits = 0
  /\ calls = [c \in CallSlots |->
                IF c = 1 THEN [FreeCall EXCEPT !.st = "sent", !.op = "list"] ELSE FreeCall]
  /\ currentProject = NoProject
  /\ loading = TRUE
  /\ error = Nil
  /\ dirty = TRUE
  /\ lastAccepted = [id \in Entities |-> 0]
  /\ connected = FALSE
  /\ wsRef = 0
  /\ sockets = [s \in SockSlots |-> FreeSock]
  /\ timers = [t \in TimerSlots |-> FreeTimer]
  /\ reconnectRef = 0
  /\ pingRef = 0
  /\ leakedPing = FALSE
  /\ pollTimer = NoPoll
  /\ pollDeps = [id |-> Nil, status |-> Nil, conn |-> FALSE]
  /\ InitExport /\ InitDelete /\ renderError = FALSE /\ InitRecorder

ServerStep ==
  \/ \E c \in CallSlots : StartStage(c)
  \/ \E c \in CallSlots : CurrentStatus(c)
  \/ \E c \in CallSlots : GetProject(c)
  \/ \E c \in CallSlots : ListProjects(c)
  \/ \E c \in CallSlots : EditText(c)

ExecutorStep ==
  \/ \E j \in 1..MaxJobs : InvokeProvider(j)
  \/ \E j \in 1..MaxJobs : JobSucceeds(j)
  \/ \E j \in 1..MaxJobs, category \in AdapterErrorCategories : JobFails(j, category)
  \/ \E j \in 1..MaxJobs : JobTimesOut(j)

UserStep ==
  \/ \E p \in Entities : SelectProject(p)
  \/ ClickTranscribe
  \/ ClickSummarize
  \/ \E field \in {"transcription", "summary"}, text \in EditTexts : SaveEdit(field, text)

\* the dispatcher, its executors and the HTTP side of the client
Next ==
  \/ ServerStep
  \/ ExecutorStep
  \/ UserStep
  \/ \E p \in {currentProject.id} \cap Entities : QueryStatus(p)
  \/ \E c \in CallSlots : Resolve(c)

Spec == Init /\ [][Next]_vars

\* the executor runs every accepted job: it invokes the provider, and the provider
\* answers or the ceiling of its provider class expires
JobEnds(j) ==
  \/ JobSucceeds(j)
  \/ JobTimesOut(j)
  \/ \E category \in AdapterErrorCategories : JobFails(j, category)

ExecutorFairness ==
  \A j \in 1..MaxJobs : WF_vars(InvokeProvider(j)) /\ WF_vars(JobEnds(j))

\* the dispatcher and its executors driven by the dashboard's start buttons
NextLive ==
  \/ \E c \in CallSlots : StartStage(c)
  \/ \E c \in CallSlots : GetProject(c)
  \/ \E c \in CallSlots : ListProjects(c)
  \/ ExecutorStep
  \/ \E p \in Entities : SelectProject(p)
  \/ ClickTranscribe
  \/ ClickSummarize
  \/ \E c \in CallSlots : Resolve(c)

SpecLive == Init /\ [][NextLive]_vars /\ ExecutorFairness

\* ----------------------------------------------------------- event replay
\* a subscriber of one entity is handed the entity's StatusEvents in any order, with
\* duplicates: the inputs are every server run of up to MaxHistory events and every
\* delivery of its log of up to MaxDeliveries documents
MaxHistory == 3
MaxDeliveries == 4
ReplayEntity == "p1"

\* a server run: the entity, its jobs and the log of the documents published
RunStart == [e |-> NewEntity, jobs |-> <<>>, log |-> <<>>]

RunStarts(r) ==
  {[e |-> AcceptStage(r.e, kind, Len(r.jobs) + 1),
    jobs |-> Append(r.jobs, NewJob(ReplayEntity, kind, r.e.version + 1)),
    log |-> Append(r.log, AcceptedMessage(AcceptStage(r.e, kind, Len(r.jobs) + 1)))]
     : kind \in {k \in StageKinds :
                   StartStageOutcome(r.e, k) = "accepted" /\ Len(r.jobs) < MaxJobs}}

RunEnds(r) ==
  IF r.e.activeJobId = 0 THEN {}
  ELSE LET j == r.e.activeJobId
           kind == r.jobs[j].stageKind
           job == [r.jobs[j] EXCEPT !.providerCalls = 1]
           ok == CompleteStage(r.e, kind)
       IN {[e |-> ok,
            jobs |-> [r.jobs EXCEPT ![j] = EndJob(job, "Succeeded", ok.version,
                                                  ResultText(kind))],
            log |-> Append(r.log, CompletedMessage(ok, kind))]}
          \cup
          {[e |-> FailStage(r.e, category),
            jobs |-> [r.jobs EXCEPT ![j] = EndJob(job, "Failed", r.e.version + 1, category)],
            log |-> Append(r.log, FailedMessage(FailStage(r.e, category), category))]
             : category \in AdapterErrorCategories \cup {"Timeout"}}

RECURSIVE RunsFrom(_, _)
RunsFrom(r, n) ==
  IF n = 0 THEN {r}
  ELSE {r} \cup UNION {RunsFrom(m, n - 1) : m \in RunStarts(r) \cup RunEnds(r)}

\* at-least-once delivery in any order: every document of the log at least once
Deliveries(n) ==
  {d \in UNION {[1..k -> 1..n] : k \in n..MaxDeliveries} :
     \A i \in 1..n : \E x \in DOMAIN d : d[x] = i}

\* what the subscriber shows when it subscribes to the new entity
FirstView == AsCurrentProject(ProjectData(ReplayEntity, NewEntity))

\* the subscriber is connected and the documents of a run wait in its socket
InitReplay ==
  \E r \in RunsFrom(RunStart, MaxHistory) :
    \E d \in Deliveries(Len(r.log)) :
      /\ Len(r.log) >= 1
      /\ entity = [id \in Entities |-> IF id = ReplayEntity THEN r.e ELSE NewEntity]
      /\ jobs = r.jobs
      /\ events = {[entityId |-> ReplayEntity, stage |-> r.log[i].status,
                    version |-> r.log[i].version, payloadDelta |-> r.log[i]]
                     : i \in 1..Len(r.log)}
      /\ edits = 0
      /\ calls = [c \in CallSlots |-> FreeCall]
      /\ currentProject = FirstView
      /\ loading = FALSE
      /\ error = Nil
      /\ dirty = FALSE
      /\ lastAccepted = [id \in Entities |-> 0]
      /\ connected = TRUE
      /\ wsRef = 1
      /\ sockets = [s \in SockSlots |->
                      IF s = 1 THEN [FreeSock EXCEPT !.state = "open", !.pid = ReplayEntity,
                                                     !.ping = TRUE,
                                                     !.inbox = [x \in DOMAIN d |-> r.log[d[x]]]]
                               ELSE FreeSock]
      /\ timers = [t \in TimerSlots |-> FreeTimer]
      /\ reconnectRef = 0
      /\ pingRef = 1
      /\ leakedPing = FALSE
      /\ pollTimer = NoPoll
      /\ pollDeps = [id |-> ReplayEntity, status |-> "pending", conn |-> TRUE]
      /\ InitExport /\ InitDelete /\ renderError = FALSE /\ InitRecorder

\* the socket hands its documents to handleWebSocketUpdate one by one
NextReplay ==
  \/ \E s \in SockSlots : Deliver(s)
  \/ \E c \in CallSlots : ListProjects(c)
  \/ \E c \in CallSlots : Resolve(c)

SpecReplay == InitReplay /\ [][NextReplay]_vars

\* ------------------------------------------------------- status channel
\* the dashboard watches an entity whose Transcription is in progress: the user selected
\* the project and clicked Transcribe, the accepted response is resolved, the dashboard
\* has rendered and the socket its effect created has just opened
WatchedEntity == "p1"

InitChannel ==
  LET e2 == AcceptStage(NewEntity, "transcription", 1)
  IN /\ entity = [id \in Entities |-> IF id = WatchedEntity THEN e2 ELSE NewEntity]
     /\ jobs = <<NewJob(WatchedEntity, "transcription", e2.version)>>
     /\ events = {StatusEvent(WatchedEntity, e2, AcceptedMessage(e2))}
     /\ edits = 0
     /\ calls = [c \in CallSlots |-> FreeCall]
     /\ currentProject = AsCurrentProject(ProjectData(WatchedEntity, e2))
     /\ loading = FALSE
     /\ error = Nil
     /\ dirty = TRUE
     /\ lastAccepted = [id \in Entities |-> IF id = WatchedEntity THEN e2.version ELSE 0]
     /\ connected = TRUE
     /\ wsRef = 1
     /\ sockets = [s \in SockSlots |->
                     IF s = 1 THEN [FreeSock EXCEPT !.state = "open", !.pid = WatchedEntity,
                                                    !.ping = TRUE, !.inbox = <<Snapshot(e2)>>]
                              ELSE FreeSock]
     /\ timers = [t \in TimerSlots |-> FreeTimer]
     /\ reconnectRef = 0
     /\ pingRef = 1
     /\ leakedPing = FALSE
     /\ pollTimer = [active |-> TRUE, pid |-> WatchedEntity, status |-> e2.stage,
                     running |-> 1]
     /\ pollDeps = [id |-> WatchedEntity, status |-> e2.stage, conn |-> FALSE]
     /\ InitExport /\ InitDelete /\ renderError = FALSE /\ InitRecorder

\* the connection is lost while the stage of the subscribed entity is in progress;
\* once the entity has left the stage the network is healthy
DropsMidStage(s, code) ==
  /\ sockets[s].pid \in Entities
  /\ entity[sockets[s].pid].activeJobId # 0
  /\ ConnectionDrops(s, code)

\* the executor, the channel, the hook, the renders and the polling fallback
NextChannel ==
  \/ ExecutorStep
  \/ \E c \in CallSlots : CurrentStatus(c)
  \/ \E c \in CallSlots : GetProject(c)
  \/ \E c \in CallSlots : ListProjects(c)
  \/ \E c \in CallSlots : Resolve(c)
  \/ Render
  \/ \E s \in SockSlots : SocketOpens(s)
  \/ \E s \in SockSlots, code \in DropCodes : DropsMidStage(s, code)
  \/ \E s \in SockSlots : SocketCloses(s)
  \/ \E t \in TimerSlots : ReconnectFires(t)
  \/ \E s \in SockSlots : Deliver(s)
  \/ PollTick

\* everything but the loss of a connection happens when it stays possible: React
\* renders, the browser dispatches socket events and timers, the server answers
ChannelFairness ==
  /\ ExecutorFairness
  /\ WF_vars(Render)
  /\ WF_vars(PollTick)
  /\ \A c \in CallSlots :
       /\ WF_vars(CurrentStatus(c)) /\ WF_vars(GetProject(c))
       /\ WF_vars(ListProjects(c)) /\ WF_vars(Resolve(c))
  /\ \A s \in SockSlots :
       WF_vars(SocketOpens(s)) /\ WF_vars(SocketCloses(s)) /\ WF_vars(Deliver(s))
  /\ \A t \in TimerSlots : WF_vars(ReconnectFires(t))

SpecChannel == InitChannel /\ [][NextChannel]_vars /\ ChannelFairness

\* ---------------------------------------------------------- subscription
\* the user moves between projects while nothing is processed: project loads, renders,
\* and the sockets, close events and reconnect timeouts of the hook
NextSubscribe ==
  \/ \E p \in Entities : SelectProject(p)
  \/ \E c \in CallSlots : GetProject(c)
  \/ \E c \in CallSlots : ListProjects(c)
  \/ \E c \in CallSlots : Resolve(c)
  \/ Render
  \/ \E s \in SockSlots : SocketOpens(s)
  \/ \E s \in SockSlots : SocketCloses(s)
  \/ \E t \in TimerSlots : ReconnectFires(t)
  \/ \E s \in SockSlots : Deliver(s)

SpecSubscribe == Init /\ [][NextSubscribe]_vars

\* ------------------------------------------------------- second stage
\* the subscribed project has its transcript: the socket delivered the snapshot and the
\* "completed" document of the transcription job
InitTranscribed ==
  LET e2 == AcceptStage(NewEntity, "transcription", 1)
      e3 == CompleteStage(e2, "transcription")
      job == [NewJob(WatchedEntity, "transcription", e2.version) EXCEPT !.providerCalls = 1]
  IN /\ entity = [id \in Entities |-> IF id = WatchedEntity THEN e3 ELSE NewEntity]
     /\ jobs = <<EndJob(job, "Succeeded", e3.version, ResultText("transcription"))>>
     /\ events = {StatusEvent(WatchedEntity, e2, AcceptedMessage(e2)),
                  StatusEvent(WatchedEntity, e3, CompletedMessage(e3, "transcription"))}
     /\ edits = 0
     /\ calls = [c \in CallSlots |-> FreeCall]
     /\ currentProject =
          ApplyUpdate(ApplyUpdate(AsCurrentProject(ProjectData(WatchedEntity, e2)),
                                  Snapshot(e2)),
                      CompletedMessage(e3, "transcription"))
     /\ loading = FALSE
     /\ error = Nil
     /\ dirty = TRUE
     /\ lastAccepted = [id \in Entities |-> IF id = WatchedEntity THEN e2.version ELSE 0]
     /\ connected = TRUE
     /\ wsRef = 1
     /\ sockets = [s \in SockSlots |->
                     IF s = 1 THEN [FreeSock EXCEPT !.state = "open", !.pid = WatchedEntity,
                                                    !.ping = TRUE]
                              ELSE FreeSock]
     /\ timers = [t \in TimerSlots |-> FreeTimer]
     /\ reconnectRef = 0
     /\ pingRef = 1
     /\ leakedPing = FALSE
     /\ pollTimer = [active |-> TRUE, pid |-> WatchedEntity, status |-> e2.stage,
                     running |-> 1]
     /\ pollDeps = [id |-> WatchedEntity, status |-> e2.stage, conn |-> FALSE]
     /\ InitExport /\ InitDelete /\ renderError = FALSE /\ InitRecorder

\* the user asks for the summary; the dispatcher, the executor, the channel and the hook
NextSummary ==
  \/ ClickSummarize
  \/ \E c \in CallSlots : StartStage(c)
  \/ \E c \in CallSlots : ListProjects(c)
  \/ ExecutorStep
  \/ \E c \in CallSlots : Resolve(c)
  \/ Render
  \/ \E s \in SockSlots : SocketOpens(s)
  \/ \E s \in SockSlots : SocketCloses(s)
  \/ \E t \in TimerSlots : ReconnectFires(t)
  \/ \E s \in SockSlots : Deliver(s)

SpecSummary == InitTranscribed /\ [][NextSummary]_vars

\* ------------------------------------------------------------ export flow
\* ExportButtons: canExport
canExport(project) ==
  project.exists /\ (Truthy(project.transcription) \/ Truthy(project.summary))

\* Google Drive button -> startGoogleDriveAuth(project.id), up to the await
StartGoogleDriveAuth ==
  /\ canExport(currentProject)
  /\ ~exportService.loading
  /\ exportService.st = "idle"
  /\ exportService' = [IdleExport EXCEPT !.loading = TRUE, !.st = "sent",
                                         !.pid = currentProject.id]
  /\ UNCHANGED <<serverVars, calls, clientVars, tokens, page, runs, uploads,
                 deleteVars, renderError, recorder>>

\* beginAuthorization(entityId): records a single-use correlation token and answers with
\* the authorization URL that carries it; or the provider is not available
BeginAuthorization ==
  /\ exportService.st = "sent"
  /\ \/ \E t \in TokenIds :
          /\ tokens[t].state = "unissued"
          /\ \A u \in TokenIds : u < t => tokens[u].state # "unissued"
          /\ tokens' = [tokens EXCEPT ![t] = [state |-> "issued", pid |-> exportService.pid]]
          /\ exportService' = [exportService EXCEPT !.st = "done", !.ok = TRUE, !.state = t]
     \/ /\ exportService' = [exportService EXCEPT !.st = "done", !.ok = FALSE,
                                                  !.err = "Unavailable"]
        /\ UNCHANGED tokens
  /\ UNCHANGED <<serverVars, calls, clientVars, page, runs, uploads, deleteVars, renderError, recorder>>

\* startGoogleDriveAuth after the await: redirect to the provider, or setError
ResolveGoogleDriveAuth ==
  /\ exportService.st = "done"
  /\ exportService' = [IdleExport EXCEPT !.error = IF exportService.ok THEN Nil
                                                   ELSE exportService.err]
  /\ UNCHANGED <<serverVars, calls, clientVars, tokens, page, runs, uploads,
                 deleteVars, renderError, recorder>>

\* the correlation token is short-lived
TokenExpires(t) ==
  /\ tokens[t].state = "issued"
  /\ tokens' = [tokens EXCEPT ![t].state = "expired"]
  /\ UNCHANGED <<serverVars, calls, clientVars, exportService, page, runs, uploads,
                 deleteVars, renderError, recorder>>

\* the browser loads /oauth/google-drive/callback?code=..&state=.. (or ?error=.., or a
\* URL without code or state): the state is one the server issued, or one it never issued
CallbackLoads(state, denied, missing) ==
  /\ ~page.loaded
  /\ state \in TokenIds => tokens[state].state # "unissued"
  /\ page' = [NoPage EXCEPT !.loaded = TRUE, !.state = state, !.denied = denied,
                             !.missing = missing]
  /\ UNCHANGED <<serverVars, calls, clientVars, tokens, exportService, runs, uploads,
                 deleteVars, renderError, recorder>>

\* the effect of the callback page runs handleCallback, up to the first await
handleCallback ==
  /\ page.loaded
  /\ page.effects < MaxRuns
  /\ LET r == page.effects + 1
     IN IF page.denied \/ page.missing
          THEN /\ page' = [page EXCEPT !.effects = r, !.status = "error",
                                       !.message = IF page.denied
                                                     THEN "Authorization failed"
                                                     ELSE "Missing parameters"]
               /\ UNCHANGED runs
          ELSE /\ page' = [page EXCEPT !.effects = r, !.message = "Exchanging",
                                       !.loading = TRUE, !.error = Nil]
               /\ runs' = [runs EXCEPT ![r] = [FreeRun EXCEPT !.pc = "exchanging",
                                                              !.state = page.state]]
  /\ UNCHANGED <<serverVars, calls, clientVars, tokens, exportService, uploads,
                 deleteVars, renderError, recorder>>

\* completeAuthorization(code, correlationToken): consumes an issued token and answers
\* with the credentials; rejects an unknown, expired or consumed token
CompleteAuthorization(r) ==
  /\ runs[r].pc = "exchanging"
  /\ LET t == runs[r].state
     IN IF t \in TokenIds /\ tokens[t].state = "issued"
          THEN /\ tokens' = [tokens EXCEPT ![t].state = "consumed"]
               /\ runs' = [runs EXCEPT ![r].pc = "exchanged", ![r].ok = TRUE,
                                       ![r].project_id = tokens[t].pid,
                                       ![r].access_token = t]
          ELSE /\ runs' = [runs EXCEPT ![r].pc = "exchanged", ![r].ok = FALSE,
                                       ![r].err = "InvalidState"]
               /\ UNCHANGED tokens
  /\ UNCHANGED <<serverVars, calls, clientVars, exportService, page, uploads,
                 deleteVars, renderError, recorder>>

\* a callback that uploads whatever the exchange answered
ResolveExchangeIgnoresRejection(r) ==
  /\ runs[r].pc = "exchanged"
  /\ page' = [page EXCEPT !.message = "Uploading", !.loading = TRUE, !.error = Nil]
  /\ runs' = [runs EXCEPT ![r].pc = "uploading"]
  /\ UNCHANGED <<serverVars, calls, clientVars, tokens, exportService, uploads,
                 deleteVars, renderError, recorder>>

\* handleCallback after await completeGoogleDriveAuth: upload with the credentials, or
\* the catch branch
ResolveExchange(r) ==
  /\ runs[r].pc = "exchanged"
  /\ IF runs[r].ok
       THEN /\ page' = [page EXCEPT !.message = "Uploading", !.loading = TRUE,
                                    !.error = Nil]
            /\ runs' = [runs EXCEPT ![r].pc = "uploading"]
       ELSE /\ page' = [page EXCEPT !.status = "error", !.message = "Export failed",
                                    !.loading = FALSE, !.error = runs[r].err]
            /\ runs' = [runs EXCEPT ![r].pc = "done"]
  /\ UNCHANGED <<serverVars, calls, clientVars, tokens, exportService, uploads,
                 deleteVars, renderError, recorder>>

\* uploadExport(entityId, credentials): the export job uploads, or the provider fails
UploadExport(r) ==
  /\ runs[r].pc = "uploading"
  /\ \/ /\ uploads' = uploads \cup {[run |-> r, pid |-> runs[r].project_id]}
        /\ runs' = [runs EXCEPT ![r].pc = "uploaded", ![r].ok = TRUE]
     \/ \E category \in AdapterErrorCategories :
          /\ runs' = [runs EXCEPT ![r].pc = "uploaded", ![r].ok = FALSE,
                                  ![r].err = category]
          /\ UNCHANGED uploads
  /\ UNCHANGED <<serverVars, calls, clientVars, tokens, exportService, page,
                 deleteVars, renderError, recorder>>

\* a callback that clears the project on display when the upload is done
ResolveUploadClearsProject(r) ==
  /\ runs[r].pc = "uploaded"
  /\ page' = [page EXCEPT !.status = "success", !.message = "Uploaded",
                          !.uploadResult = r, !.loading = FALSE]
  /\ runs' = [runs EXCEPT ![r].pc = "done"]
  /\ currentProject' = NoProject
  /\ UNCHANGED <<serverVars, calls, loading, error, dirty, lastAccepted, sockets, hookVars,
                 pollVars, tokens, exportService, uploads, deleteVars, renderError,
                 recorder>>

\* a callback that reports success whatever the upload answered
ResolveUploadAlwaysSuccess(r) ==
  /\ runs[r].pc = "uploaded"
  /\ page' = [page EXCEPT !.status = "success", !.message = "Uploaded",
                          !.uploadResult = r, !.loading = FALSE]
  /\ runs' = [runs EXCEPT ![r].pc = "done"]
  /\ UNCHANGED <<serverVars, calls, clientVars, tokens, exportService, uploads,
                 deleteVars, renderError, recorder>>

\* handleCallback after await uploadToGoogleDrive: success, or the catch branch
ResolveUpload(r) ==
  /\ runs[r].pc = "uploaded"
  /\ IF runs[r].ok
       THEN page' = [page EXCEPT !.status = "success", !.message = "Uploaded",
                                 !.uploadResult = r, !.loading = FALSE]
       ELSE page' = [page EXCEPT !.status = "error", !.message = "Export failed",
                                 !.loading = FALSE, !.error = runs[r].err]
  /\ runs' = [runs EXCEPT ![r].pc = "done"]
  /\ UNCHANGED <<serverVars, calls, clientVars, tokens, exportService, uploads,
                 deleteVars, renderError, recorder>>

\* the export of the transcribed project while its summary is requested and produced
NextExport ==
  \/ StartGoogleDriveAuth
  \/ BeginAuthorization
  \/ ResolveGoogleDriveAuth
  \/ \E t \in TokenIds : TokenExpires(t)
  \/ \E state \in TokenIds \cup {UnknownState}, denied \in BOOLEAN, missing \in BOOLEAN :
       CallbackLoads(state, denied, missing)
  \/ handleCallback
  \/ \E r \in RunIds : CompleteAuthorization(r)
  \/ \E r \in RunIds : ResolveExchange(r)
  \/ \E r \in RunIds : UploadExport(r)
  \/ \E r \in RunIds : ResolveUpload(r)
  \/ ClickSummarize
  \/ \E c \in CallSlots : StartStage(c)
  \/ ExecutorStep
  \/ \E c \in CallSlots : Resolve(c)

SpecExport == InitTranscribed /\ [][NextExport]_vars

\* --------------------------------------------------------------- deletion
\* delete button of the project list, confirmed -> deleteProject(project.id), up to the
\* await; the closure holds the project on display
ClickDelete(p) ==
  /\ HasFreeCall
  /\ calls' = SendCall("delete", p, IF currentProject.id = p THEN "current" ELSE Nil)
  /\ loading' = TRUE
  /\ error' = Nil
  /\ dirty' = TRUE
  /\ UNCHANGED <<serverVars, currentProject, lastAccepted, sockets, hookVars, pollVars,
                 sideVars>>

\* DELETE /projects/{id} while activeJobId is set: the cancellation of the job in flight
\* is requested, and the request waits
RequestCancellation(c) ==
  /\ calls[c].st = "sent"
  /\ calls[c].op = "delete"
  /\ calls[c].pid \notin deleted
  /\ entity[calls[c].pid].activeJobId # 0
  /\ entity[calls[c].pid].activeJobId \notin cancelRequested
  /\ cancelRequested' = cancelRequested \cup {entity[calls[c].pid].activeJobId}
  /\ UNCHANGED <<serverVars, calls, clientVars, exportVars, deleted, renderError, recorder>>

\* a deletion that does not wait for the job in flight
DeleteEntityNoWait(c) ==
  /\ calls[c].st = "sent"
  /\ calls[c].op = "delete"
  /\ LET id == calls[c].pid
         e == entity[id]
     IN IF id \in deleted
          THEN /\ calls' = Respond(c, FALSE, "NotFound", NoData, e.version, e.version)
               /\ UNCHANGED deleted
          ELSE /\ deleted' = deleted \cup {id}
               /\ calls' = Respond(c, TRUE, Nil, NoData, e.version, e.version)
  /\ UNCHANGED <<serverVars, clientVars, exportVars, cancelRequested, renderError,
                 recorder>>

\* DELETE /projects/{id}: the entity is released for deletion once no job of it is in
\* flight; an entity that is gone is NotFound
DeleteEntity(c) ==
  /\ calls[c].st = "sent"
  /\ calls[c].op = "delete"
  /\ LET id == calls[c].pid
         e == entity[id]
     IN IF id \in deleted
          THEN /\ calls' = Respond(c, FALSE, "NotFound", NoData, e.version, e.version)
               /\ UNCHANGED deleted
          ELSE /\ e.activeJobId = 0
               /\ deleted' = deleted \cup {id}
               /\ calls' = Respond(c, TRUE, Nil, NoData, e.version, e.version)
  /\ UNCHANGED <<serverVars, clientVars, exportVars, cancelRequested, renderError,
                 recorder>>

\* the executor finds the cancellation signal between the provider call and the state
\* write: the job ends without a result and without a StatusEvent
JobCancelled(j) ==
  /\ Running(j)
  /\ jobs[j].providerCalls = 1
  /\ j \in cancelRequested
  /\ LET id == jobs[j].entityId
         e2 == [entity[id] EXCEPT !.activeJobId = 0, !.version = @ + 1]
     IN /\ entity' = [entity EXCEPT ![id] = e2]
        /\ jobs' = [jobs EXCEPT ![j] = EndJob(@, "Cancelled", e2.version, Nil)]
  /\ UNCHANGED <<events, edits, calls, clientVars, sideVars>>

\* projects are deleted while the transcription of the subscribed project runs
NextDelete ==
  \/ \E p \in Entities : ClickDelete(p)
  \/ \E c \in CallSlots : RequestCancellation(c)
  \/ \E c \in CallSlots : DeleteEntity(c)
  \/ \E j \in 1..MaxJobs : JobCancelled(j)
  \/ ExecutorStep
  \/ \E c \in CallSlots : Resolve(c)

\* the server handles every request and the executor runs and ends every job
DeleteFairness ==
  /\ ExecutorFairness
  /\ \A j \in 1..MaxJobs : WF_vars(JobCancelled(j))
  /\ \A c \in CallSlots : WF_vars(RequestCancellation(c)) /\ WF_vars(DeleteEntity(c))

SpecDelete == InitChannel /\ [][NextDelete]_vars /\ DeleteFairness

\* ------------------------------------------------------- polling fallback
\* the dashboard watches the entity while its stage stays in progress and the network
\* loses connections: the hook, the renders, the polling interval and the status query
NextPoll ==
  \/ \E c \in CallSlots : CurrentStatus(c)
  \/ \E c \in CallSlots : Resolve(c)
  \/ Render
  \/ \E s \in SockSlots : SocketOpens(s)
  \/ \E s \in SockSlots, code \in DropCodes : DropsMidStage(s, code)
  \/ \E s \in SockSlots : SocketCloses(s)
  \/ \E t \in TimerSlots : ReconnectFires(t)
  \/ PollTick

\* React renders, the browser dispatches socket events and timers, the server answers;
\* the loss of a connection is never forced
PollFairness ==
  /\ WF_vars(Render)
  /\ WF_vars(PollTick)
  /\ \A c \in CallSlots : WF_vars(CurrentStatus(c)) /\ WF_vars(Resolve(c))
  /\ \A s \in SockSlots : WF_vars(SocketOpens(s)) /\ WF_vars(SocketCloses(s))
  /\ \A t \in TimerSlots : WF_vars(ReconnectFires(t))

SpecPoll == InitChannel /\ [][NextPoll]_vars /\ PollFairness

\* the job of the watched entity ends while the dashboard polls: the executor, the status
\* query, the re-fetch of the project and of the list, requests that fail, the renders
NextRefetch ==
  \/ ExecutorStep
  \/ \E c \in CallSlots : CurrentStatus(c)
  \/ \E c \in CallSlots : GetProject(c)
  \/ \E c \in CallSlots : ListProjects(c)
  \/ \E c \in CallSlots : RequestFails(c)
  \/ \E c \in CallSlots : Resolve(c)
  \/ Render
  \/ \E s \in SockSlots : SocketOpens(s)
  \/ \E s \in SockSlots : SocketCloses(s)
  \/ PollTick

SpecRefetch == InitChannel /\ [][NextRefetch]_vars

\* ----------------------------------------------------- incoming messages
\* what arrives on the socket of entity id: the keepalive texts, texts that are no
\* document, a document of a type the dashboard does not handle, and the snapshot
Frames(id) ==
  {TextFrame(t) : t \in FrameTexts}
    \cup {[Snapshot(entity[id]) EXCEPT !.type = "progress"], Snapshot(entity[id])}

\* the server, or an intermediary, sends a frame on the open socket s
SendFrame(s, frame) ==
  /\ sockets[s].state = "open"
  /\ Len(sockets[s].inbox) < MaxInbox
  /\ sockets' = [sockets EXCEPT ![s].inbox = Append(@, frame)]
  /\ UNCHANGED <<serverVars, calls, uiVars, hookVars, pollVars, sideVars>>

\* a frame arrives on socket s
FrameArrives(s) ==
  /\ sockets[s].pid \in Entities
  /\ \E frame \in Frames(sockets[s].pid) : SendFrame(s, frame)

\* React has unmounted a dashboard whose render threw: its buttons are gone and the
\* cleanup of the socket effect has closed the socket
DeliverMounted(s) == ~renderError /\ Deliver(s)
ClickDeleteMounted(p) == ~renderError /\ ClickDelete(p)

\* frames arrive while the user looks at the transcribed project or deletes a project
NextMessages ==
  \/ \E s \in SockSlots : FrameArrives(s)
  \/ \E s \in SockSlots : DeliverMounted(s)
  \/ \E p \in Entities : ClickDeleteMounted(p)
  \/ \E c \in CallSlots : DeleteEntity(c)
  \/ \E c \in CallSlots : Resolve(c)

SpecMessages == InitTranscribed /\ [][NextMessages]_vars

\* --------------------------------------------------------- audio recorder
\* the callbacks of the hook read isRecording and isPaused of the last render; every
\* state change is taken as rendered before the next call
\* setInterval: the id of the new timer
NewInterval(rec) ==
  CHOOSE i \in IntervalIds : i \notin rec.intervals /\ \A j \in 1..(i - 1) : j \in rec.intervals

\* clearInterval(timerRef.current); timerRef.current = null
ClearTimer(rec) ==
  IF rec.timerRef # 0
    THEN [rec EXCEPT !.intervals = @ \ {rec.timerRef}, !.timerRef = 0]
    ELSE rec

\* timerRef.current = setInterval(...)
StartTimer(rec) ==
  LET i == NewInterval(rec)
  IN [rec EXCEPT !.intervals = @ \cup {i}, !.timerRef = i]

recorderFrame == <<serverVars, calls, clientVars, exportVars, deleteVars, renderError>>

\* startRecording, up to await getUserMedia
startRecording(k) ==
  /\ recorder.starts[k] = "idle"
  /\ recorder.media[k] \in {"none", "inactive"}
  /\ \A j \in 1..(k - 1) : recorder.starts[j] # "idle" \/ recorder.media[j] \notin {"none", "inactive"}
  /\ recorder' = [recorder EXCEPT !.error = Nil, !.audioUrl = FALSE,
                                  !.starts[k] = "awaiting"]
  /\ UNCHANGED recorderFrame

\* startRecording after the await: a new MediaRecorder is started, the state is set and
\* the duration timer is set
MicrophoneGranted(k) ==
  /\ recorder.starts[k] = "awaiting"
  /\ recorder.intervals # IntervalIds
  /\ recorder' = StartTimer([recorder EXCEPT !.starts[k] = "idle",
                                             !.media[k] = "recording",
                                             !.mediaRecorderRef = k,
                                             !.isRecording = TRUE,
                                             !.isPaused = FALSE,
                                             !.duration = 0])
  /\ UNCHANGED recorderFrame

\* getUserMedia rejects: the catch branch
MicrophoneDenied(k) ==
  /\ recorder.starts[k] = "awaiting"
  /\ recorder' = [recorder EXCEPT !.starts[k] = "idle", !.error = "NotAllowedError"]
  /\ UNCHANGED recorderFrame

\* stopRecording
stopRecording ==
  /\ recorder' =
       IF recorder.mediaRecorderRef # 0 /\ recorder.isRecording
         THEN ClearTimer([recorder EXCEPT !.media[recorder.mediaRecorderRef] = "stopped",
                                          !.isRecording = FALSE, !.isPaused = FALSE])
         ELSE recorder
  /\ UNCHANGED recorderFrame

\* mediaRecorder.onstop: the blob and its URL
RecorderStopped(k) ==
  /\ recorder.media[k] = "stopped"
  /\ recorder' = [recorder EXCEPT !.media[k] = "inactive", !.audioUrl = TRUE]
  /\ UNCHANGED recorderFrame

\* pauseRecording
pauseRecording ==
  /\ recorder' =
       IF recorder.mediaRecorderRef # 0 /\ recorder.isRecording /\ ~recorder.isPaused
         THEN ClearTimer([recorder EXCEPT !.media[recorder.mediaRecorderRef] = "paused",
                                          !.isPaused = TRUE])
         ELSE recorder
  /\ UNCHANGED recorderFrame

\* resumeRecording
resumeRecording ==
  /\ recorder.intervals # IntervalIds
  /\ recorder' =
       IF recorder.mediaRecorderRef # 0 /\ recorder.isRecording /\ recorder.isPaused
         THEN StartTimer([recorder EXCEPT !.media[recorder.mediaRecorderRef] = "recording",
                                          !.isPaused = FALSE])
         ELSE recorder
  /\ UNCHANGED recorderFrame

\* clearRecording
clearRecording ==
  /\ recorder' = [recorder EXCEPT !.audioUrl = FALSE, !.duration = 0]
  /\ UNCHANGED recorderFrame

\* a duration timer fires: setDuration(prev => prev + 1)
DurationTick(i) ==
  /\ i \in recorder.intervals
  /\ recorder.duration < MaxDuration
  /\ recorder' = [recorder EXCEPT !.duration = @ + 1]
  /\ UNCHANGED recorderFrame

\* the user and the browser drive the recorder of the upload card
NextRecorder ==
  \/ \E k \in StartIds : startRecording(k)
  \/ \E k \in StartIds : MicrophoneGranted(k)
  \/ \E k \in StartIds : MicrophoneDenied(k)
  \/ stopRecording
  \/ \E k \in StartIds : RecorderStopped(k)
  \/ pauseRecording
  \/ resumeRecording
  \/ clearRecording
  \/ \E i \in IntervalIds : DurationTick(i)

SpecRecorder == Init /\ [][NextRecorder]_vars

\* ------------------------------------------------------------ properties
StartOps == {"transcribe", "summarize"}
RunningJobs(id) == {j \in 1..Len(jobs) : jobs[j].entityId = id /\ jobs[j].status = "Running"}

\* the server handles the request of slot c in this step
Handled(c) == calls[c].st = "sent" /\ calls'[c].st = "done"

Rivals(c, d) ==
  /\ c # d
  /\ calls[c].st = "done" /\ calls[d].st = "done"
  /\ calls[c].rival /\ calls[d].rival
  /\ calls[c].op \in StartOps /\ calls[c].op = calls[d].op
  /\ calls[c].pid = calls[d].pid

\* C2: of two concurrent startStage calls for the same entity and stage, when one is
\* accepted and the other is handled next (nothing mutated the entity in between), the
\* other gets ConflictError: exactly one accepted, one ConflictError.
C2_OneAcceptedOneConflict ==
  \A c, d \in CallSlots :
    (Rivals(c, d) /\ calls[c].ok /\ calls[d].verBefore = calls[c].ver)
      => ~calls[d].ok /\ calls[d].err = "ConflictError"

C2_Witness ==
  \E c, d \in CallSlots :
    /\ Rivals(c, d) /\ calls[c].ok /\ calls[d].verBefore = calls[c].ver
    /\ ~calls[d].ok /\ calls[d].err = "ConflictError"

\* C3: when a start request has been answered with success, the entity's version is at
\* least the answered one and the StatusEvent of the transition is published; a status
\* query issued after the client saw the success never returns an older version (so never
\* the pre-start stage); and when the client resolves the success response,
\* currentProject becomes the in-progress project the server returned.
C3_TransitionBeforeResponse ==
  /\ [](\A c \in CallSlots :
          /\ (calls[c].st = "done" /\ calls[c].ok /\ calls[c].op \in StartOps)
               => /\ calls[c].data.status = InProgressStage(KindOfOp(calls[c].op))
                  /\ calls[c].ver = calls[c].verBefore + 1
                  /\ entity[calls[c].pid].version >= calls[c].data.version
                  /\ \E ev \in events :
                       /\ ev.entityId = calls[c].pid
                       /\ ev.stage = calls[c].data.status
                       /\ ev.version = calls[c].data.version
          /\ (calls[c].st = "done" /\ calls[c].op = "status")
               => calls[c].data.version >= calls[c].floor)
  /\ [][\A c \in CallSlots :
          (calls[c].st = "done" /\ calls[c].ok /\ calls[c].op \in StartOps
             /\ calls'[c].st = "free")
            => /\ currentProject'.exists
               /\ currentProject'.id = calls[c].pid
               /\ currentProject'.status = InProgressStage(KindOfOp(calls[c].op))
               /\ currentProject' = AsCurrentProject(calls[c].data)]_vars

\* a status query issued after an accepted start was seen has been answered, and the
\* client shows the in-progress project
C3_Witness ==
  /\ \E c \in CallSlots :
       calls[c].st = "done" /\ calls[c].op = "status" /\ calls[c].floor > 1
  /\ currentProject.exists
  /\ currentProject.status \in {"transcribing", "summarizing"}

\* C4: a Summarization start handled while the transcript is empty is rejected with
\* ValidationError and changes nothing; and the client sends a Summarization start only
\* when the selected project has a non-empty transcription.
C4_SummarizeNeedsTranscript ==
  [][\A c \in CallSlots :
       /\ (Handled(c) /\ calls[c].op = "summarize"
             /\ ~Truthy(entity[calls[c].pid].transcriptionText))
            => /\ ~calls'[c].ok /\ calls'[c].err = "ValidationError"
               /\ entity' = entity /\ jobs' = jobs /\ events' = events
       /\ (calls[c].st = "free" /\ calls'[c].st = "sent" /\ calls'[c].op = "summarize")
            => /\ Truthy(currentProject.transcription)
               /\ calls'[c].pid = currentProject.id]_vars

\* a Summarization start the dashboard sent was rejected with ValidationError on an
\* entity whose transcript is empty
C4_Witness ==
  \E c \in CallSlots :
    /\ calls[c].st = "done" /\ calls[c].op = "summarize"
    /\ calls[c].err = "ValidationError"
    /\ ~Truthy(entity[calls[c].pid].transcriptionText)

\* the edges of the transition table
StartEdges == {"pending", "failed"} \X {"transcribing", "summarizing"}
SuccessEdges == {<<"transcribing", "pending">>, <<"summarizing", "completed">>}
FailureEdges == {"transcribing", "summarizing"} \X {"failed"}

\* every change of an entity's stage is an edge of the table taken by its own cause
ServerFollowsTable ==
  \A id \in Entities :
    LET a == entity[id].stage
        b == entity'[id].stage
        accepted == \E c \in CallSlots :
                      /\ Handled(c) /\ calls'[c].ok
                      /\ calls[c].op \in StartOps /\ calls[c].pid = id
        ended(st) == \E j \in 1..Len(jobs) :
                       /\ jobs[j].entityId = id
                       /\ jobs[j].status = "Running" /\ jobs'[j].status = st
    IN a # b => \/ <<a, b>> \in StartEdges /\ accepted
                \/ <<a, b>> \in SuccessEdges /\ ended("Succeeded")
                \/ <<a, b>> \in FailureEdges /\ ended("Failed")

\* the status shown for the selected project changes along an edge of the table
ClientFollowsTable ==
  (/\ currentProject.exists /\ currentProject'.exists
   /\ currentProject'.id = currentProject.id
   /\ currentProject'.status # currentProject.status)
    => <<currentProject.status, currentProject'.status>>
         \in StartEdges \cup SuccessEdges \cup FailureEdges

\* the status shown changes only when a response or a status message is applied, and is
\* then the status that response or message carries
ClientShowsReportedStatus ==
  /\ (currentProject'.exists /\ currentProject'.status # currentProject.status)
       => \/ \E c \in CallSlots :
               /\ calls[c].st = "done" /\ calls[c].ok /\ calls'[c] # calls[c]
               /\ currentProject'.status = calls[c].data.status
          \/ \E x \in SockSlots :
               /\ sockets[x].inbox # <<>> /\ sockets'[x].inbox = Tail(sockets[x].inbox)
               /\ currentProject'.status = Head(sockets[x].inbox).status
  /\ \A c \in CallSlots :
       (/\ calls[c].st = "done" /\ calls[c].ok /\ calls'[c] # calls[c]
        /\ calls[c].op \in {"get", "put"} \cup StartOps)
         => currentProject'.status = calls[c].data.status

\* C5 as stated: the stage of every entity, and the status the client shows for the
\* selected project, change only along the edges of the transition table.
C5_Original == [][ServerFollowsTable /\ ClientFollowsTable]_vars

\* C5 amended: every change of an entity's stage follows the transition table, each edge
\* taken only by its cause (accepted startStage, job success, job failure) and Completed
\* never left; the status the client shows changes only by applying a server response or
\* status message and then equals the status it carries (it may skip or repeat edges).
C5_ServerFollowsTable == [][ServerFollowsTable /\ ClientShowsReportedStatus]_vars

\* an entity went from Pending through both stages to Completed, and the client shows
\* the Completed status it took from a response
C5_Witness ==
  /\ \E id \in Entities :
       /\ entity[id].stage = "completed"
       /\ \E j \in 1..Len(jobs) : jobs[j].entityId = id /\ jobs[j].status = "Succeeded"
  /\ currentProject.exists /\ currentProject.status = "completed"

\* the version changes by exactly one with every mutation of the entity, never otherwise
VersionStep ==
  \A id \in Entities :
    \/ entity'[id] = entity[id]
    \/ entity'[id].version = entity[id].version + 1

Succeeded(j) == j \in 1..Len(jobs) /\ jobs[j].status = "Succeeded"

\* C7 as stated: the version strictly increases with every mutation and is unchanged
\* otherwise, and a job that succeeds leaves it exactly 1 above its value at job start.
C7_Original ==
  /\ [][VersionStep]_vars
  /\ [](\A j \in 1..MaxJobs :
          Succeeded(j) => jobs[j].endVersion = jobs[j].startVersion + 1)

\* C7 amended: the version strictly increases by one with every mutation (accepted
\* startStage, job success, job failure, user text edit) and is unchanged otherwise,
\* rejected starts included; a job that succeeds leaves it exactly 1 above its value at
\* job start plus the number of user text edits applied while the job ran.
C7_VersionCountsMutations ==
  /\ [][VersionStep /\ \A c \in CallSlots :
          (Handled(c) /\ ~calls'[c].ok) => entity' = entity]_vars
  /\ [](\A j \in 1..MaxJobs :
          Succeeded(j) => jobs[j].endVersion = jobs[j].startVersion + 1 + jobs[j].edits)

\* a job succeeded although a second start was rejected with ConflictError while it ran
C7_Witness ==
  \E j \in 1..MaxJobs, c \in CallSlots :
    /\ Succeeded(j) /\ jobs[j].edits = 0
    /\ jobs[j].endVersion = jobs[j].startVersion + 1
    /\ calls[c].st = "done" /\ calls[c].err = "ConflictError"
    /\ calls[c].pid = jobs[j].entityId
    /\ calls[c].verBefore = jobs[j].startVersion

Ended(j) == j \in 1..Len(jobs) /\ jobs[j].status \in {"Succeeded", "Failed"}

\* C6: every accepted job eventually ends (success, failure or timeout); the step that
\* ends it clears activeJobId; a timeout leaves the entity Failed with failureReason
\* Timeout; and the provider is invoked at most once per job.
C6_JobsTerminate ==
  /\ \A j \in 1..MaxJobs : Running(j) ~> Ended(j)
  /\ [](\A j \in 1..MaxJobs :
          /\ j \in 1..Len(jobs) => jobs[j].providerCalls <= 1
          /\ Ended(j) => entity[jobs[j].entityId].activeJobId # j)
  /\ [][\A j \in 1..MaxJobs :
          (Running(j) /\ Ended(j)')
            => /\ entity'[jobs[j].entityId].activeJobId = 0
               /\ jobs'[j].providerCalls = jobs[j].providerCalls
               /\ jobs'[j].result = "Timeout"
                    => /\ entity'[jobs[j].entityId].stage = "failed"
                       /\ entity'[jobs[j].entityId].failureReason = "Timeout"]_vars

\* a job ended by timeout: the entity is Failed with Timeout and has no active job
C6_Witness ==
  \E j \in 1..MaxJobs :
    /\ Ended(j) /\ jobs[j].result = "Timeout" /\ jobs[j].providerCalls = 1
    /\ entity[jobs[j].entityId].stage = "failed"
    /\ entity[jobs[j].entityId].failureReason = "Timeout"
    /\ entity[jobs[j].entityId].activeJobId = 0

\* the documents published for an entity, in version order
EventLog(id) ==
  LET evs == {ev \in events : ev.entityId = id}
  IN [i \in 1..Cardinality(evs) |->
        (CHOOSE ev \in evs :
           Cardinality({o \in evs : o.version < ev.version}) = i - 1).payloadDelta]

\* a subscriber that receives each document of the log once, in version order
RECURSIVE InOrderView(_, _)
InOrderView(prev, log) ==
  IF log = <<>> THEN prev ELSE InOrderView(ApplyUpdate(prev, Head(log)), Tail(log))

\* C8 as stated: once every document of a reordered, duplicated delivery has been
\* handled, the subscriber shows the same status, transcription, summary and error
\* message as a subscriber that received each event once in version order.
C8_Original ==
  \A s \in SockSlots :
    (sockets[s].state = "open" /\ sockets[s].inbox = <<>> /\ currentProject.exists)
      => currentProject = InOrderView(FirstView, EventLog(currentProject.id))

\* C9 as stated: when the entity is Completed or Failed and the subscriber of that entity
\* has no open connection, the subscriber eventually shows that terminal status, through
\* the snapshot of a reconnect or through the status-query fallback.
C9_Original ==
  \A id \in Entities :
    (/\ entity[id].stage \in {"completed", "failed"}
     /\ currentProject.id = id
     /\ \A s \in SockSlots : sockets[s].state # "open")
      ~> (currentProject.id = id => currentProject.status = entity[id].stage)

\* C10 as stated: the open socket of the selected entity stays the hook's open socket
\* in every step that keeps the selected entity id, unless the connection drops; no
\* StatusEvent, change of the connected flag or other re-render closes or replaces it.
C10_Original ==
  [][\A s \in SockSlots :
       (/\ wsRef = s /\ sockets[s].state = "open"
        /\ sockets[s].pid = currentProject.id
        /\ currentProject'.id = currentProject.id)
         => \/ wsRef' = s /\ sockets'[s].state = "open"
            \/ wsRef' = s /\ sockets'[s].state = "closing" /\ sockets'[s].code \in DropCodes
    ]_vars

LiveSockets == {s \in SockSlots : sockets[s].state \in {"connecting", "open"}}

\* C11 as stated: the client holds at most one connecting or open WebSocket, and once
\* React has run the effects of the last state change (no render is pending) that
\* socket is the hook's socket and is addressed to the selected project id.
C11_Original ==
  /\ Cardinality(LiveSockets) <= 1
  /\ ~dirty => \A s \in LiveSockets :
                 wsRef = s /\ sockets[s].pid = currentProject.id

\* socket s hands the first document of its inbox to handleWebSocketUpdate in this step
Dispatched(s) ==
  /\ sockets[s].state = "open" /\ sockets'[s].state = "open"
  /\ sockets[s].inbox # <<>>
  /\ sockets'[s].inbox = Tail(sockets[s].inbox)

\* C12: a job that fails leaves the entity's transcriptionText and summaryText as they
\* were; and a "status" or "error" document that carries no transcription and no summary
\* leaves currentProject.transcription and currentProject.summary as they were.
C12_FailureKeepsResults ==
  /\ [][\A j \in 1..Len(jobs) :
          (jobs[j].status = "Running" /\ jobs'[j].status = "Failed")
            => /\ entity'[jobs[j].entityId].stage = "failed"
               /\ entity'[jobs[j].entityId].transcriptionText
                    = entity[jobs[j].entityId].transcriptionText
               /\ entity'[jobs[j].entityId].summaryText
                    = entity[jobs[j].entityId].summaryText]_vars
  /\ [][\A s \in SockSlots :
          (/\ Dispatched(s)
           /\ Head(sockets[s].inbox).type \in {"status", "error"}
           /\ Head(sockets[s].inbox).transcription = Nil
           /\ Head(sockets[s].inbox).summary = Nil)
            => /\ currentProject'.transcription = currentProject.transcription
               /\ currentProject'.summary = currentProject.summary]_vars

\* the summarization failed, the transcript is still stored, and the client that was told
\* of the failure still shows the transcript
C12_Witness ==
  /\ entity[WatchedEntity].stage = "failed"
  /\ entity[WatchedEntity].transcriptionText = ResultText("transcription")
  /\ currentProject.id = WatchedEntity
  /\ currentProject.status = "failed"
  /\ currentProject.error_message # Nil
  /\ currentProject.transcription = ResultText("transcription")

\* the views of a subscriber that received the first n events of the entity, each once
\* and in version order
InOrderViews(id) ==
  {InOrderView(FirstView, SubSeq(EventLog(id), 1, n)) : n \in 0..Len(EventLog(id))}

\* C13 as stated: failureReason is set only while the stage is Failed, also after a retry
\* from Failed; and a client that has applied the entity's status events in order shows
\* an error_message only while it shows the status failed.
C13_Original ==
  /\ \A id \in Entities :
       entity[id].stage # "failed" => entity[id].failureReason = Nil
  /\ (currentProject.exists /\ currentProject \in InOrderViews(ReplayEntity))
       => (currentProject.status # "failed" => currentProject.error_message = Nil)

\* a start request leaves the client in this step
StartRequested ==
  \E c \in CallSlots :
    calls[c].st # "sent" /\ calls'[c].st = "sent" /\ calls'[c].op \in StartOps

\* C14: a start request is sent only by a click on a Transcribe, Retry or Summarize
\* button; a job is created, and a Failed entity leaves Failed, only in the step in which
\* the dispatcher handles a start request. The executor, the reconnects of the socket
\* hook and the polling fallback start nothing.
C14_NoAutomaticStart ==
  [][/\ StartRequested => (ClickTranscribe \/ ClickSummarize)
     /\ Len(jobs') > Len(jobs)
          => \E c \in CallSlots : Handled(c) /\ calls[c].op \in StartOps /\ calls'[c].ok
     /\ \A id \in Entities :
          (entity[id].stage = "failed" /\ entity'[id].stage # "failed")
            => \E c \in CallSlots :
                 /\ Handled(c) /\ calls[c].op \in StartOps
                 /\ calls[c].pid = id /\ calls'[c].ok]_vars

\* the job failed, the polling fallback was answered "failed", the hook is reconnecting,
\* and the failed job is still the entity's only job
C14_Witness ==
  /\ entity[WatchedEntity].stage = "failed"
  /\ Len(jobs) = 1
  /\ \E c \in CallSlots :
       /\ calls[c].op = "status" /\ calls[c].st = "done"
       /\ calls[c].data.status = "failed"
  /\ \E s \in SockSlots : sockets[s].state = "connecting"

StartRejections == {"ValidationError", "ConflictError"}

C16_FailureOnlyAsState ==
  /\ [](/\ error \notin ProviderErrorCategories
        /\ \A c \in CallSlots :
             (calls[c].st = "done" /\ calls[c].op \in StartOps)
               => /\ calls[c].err \in StartRejections \cup {Nil}
                  /\ calls[c].ok
                       => /\ calls[c].data.status = InProgressStage(KindOfOp(calls[c].op))
                          /\ calls[c].data.error_message = Nil)
  /\ [][\A j \in 1..Len(jobs) :
          (jobs[j].status = "Running" /\ jobs'[j].status = "Failed")
            => /\ calls' = calls /\ error' = error /\ currentProject' = currentProject
               /\ jobs'[j].result \in ProviderErrorCategories
               /\ entity'[jobs[j].entityId].stage = "failed"
               /\ entity'[jobs[j].entityId].failureReason = jobs'[j].result
               /\ \E ev \in events' \ events :
                    /\ ev.entityId = jobs[j].entityId /\ ev.stage = "failed"
                    /\ ev.payloadDelta.error_message = jobs'[j].result]_vars
  /\ [][\A s \in SockSlots :
          (Dispatched(s) /\ Head(sockets[s].inbox).type = "error")
            => /\ currentProject'.status = "failed"
               /\ currentProject'.error_message = Head(sockets[s].inbox).error_message
               /\ currentProject'.error_message \in ProviderErrorCategories
               /\ error' \in {error, Nil}]_vars

\* the summarize request was answered "accepted" and resolved without error; its job
\* failed afterwards and the subscriber shows the failure and its category
C16_Witness ==
  /\ \E j \in 1..Len(jobs) :
       /\ jobs[j].status = "Failed" /\ jobs[j].stageKind = "summarization"
       /\ lastAccepted[jobs[j].entityId] = jobs[j].startVersion
  /\ \A c \in CallSlots : calls[c].op \notin StartOps
  /\ error = Nil
  /\ currentProject.status = "failed"
  /\ currentProject.error_message \in ProviderErrorCategories

\* an answered status query
StatusAnswer(c) == calls[c].st = "done" /\ calls[c].op = "status"

\* C17: a status query is read-only on both sides: sending it changes nothing the client
\* shows, and handling it changes no entity, job or event and returns the stage, version
\* and failureReason the entity has. Two answers for the same entity taken at the same
\* version (no mutation in between) are identical.
C17_StatusReadOnlyIdempotent ==
  /\ [][\A c \in CallSlots :
          /\ (calls[c].st # "sent" /\ calls'[c].st = "sent" /\ calls'[c].op = "status")
               => UNCHANGED <<serverVars, sockets, uiVars>>
          /\ (Handled(c) /\ calls[c].op = "status")
               => /\ UNCHANGED <<serverVars, sockets, uiVars>>
                  /\ calls'[c].ok
                  /\ calls'[c].data.status = entity[calls[c].pid].stage
                  /\ calls'[c].data.version = entity[calls[c].pid].version
                  /\ calls'[c].data.error_message = entity[calls[c].pid].failureReason]_vars
  /\ [](\A c, d \in CallSlots :
          (/\ StatusAnswer(c) /\ StatusAnswer(d)
           /\ calls[c].pid = calls[d].pid /\ calls[c].ver = calls[d].ver)
            => calls[c].data = calls[d].data)

\* two status queries for the same entity were answered after its job failed, with no
\* mutation between them
C17_Witness ==
  \E c, d \in CallSlots :
    /\ c # d /\ StatusAnswer(c) /\ StatusAnswer(d)
    /\ calls[c].pid = calls[d].pid /\ calls[c].ver = calls[d].ver
    /\ calls[c].data = calls[d].data
    /\ calls[c].data.status = "failed"
    /\ calls[c].data.error_message \in ProviderErrorCategories
    /\ entity[calls[c].pid].version = calls[c].ver

\* the exchange of run r was accepted: it holds credentials
Accepted(r) == runs[r].access_token # 0

\* the server answers the completeAuthorization call of run r in this step
Exchanged(r) == runs[r].pc = "exchanging" /\ runs'[r].pc = "exchanged"

\* C18: completeAuthorization accepts a call exactly when its correlation token is issued
\* and neither expired nor consumed, and consumes the token, which stays consumed; so no
\* two calls are accepted with the same token. A rejected call changes no token, no
\* upload and no other run of the callback, and a rejected run never uploads: when the
\* callback runs twice for one URL, the run that was accepted keeps its credentials.
C18_TokenAcceptedOnce ==
  /\ [][\A r \in RunIds :
          Exchanged(r)
            => /\ runs'[r].ok <=> (/\ runs[r].state \in TokenIds
                                   /\ tokens[runs[r].state].state = "issued")
               /\ runs'[r].ok => /\ tokens'[runs[r].state].state = "consumed"
                                 /\ runs'[r].project_id = tokens[runs[r].state].pid
               /\ ~runs'[r].ok => /\ tokens' = tokens /\ uploads' = uploads
                                  /\ \A q \in RunIds \ {r} : runs'[q] = runs[q]]_vars
  /\ [][\A t \in TokenIds :
          tokens[t].state \in {"consumed", "expired"} => tokens'[t] = tokens[t]]_vars
  /\ [](\A r, q \in RunIds :
          (r # q /\ Accepted(r) /\ Accepted(q)) => runs[r].state # runs[q].state)
  /\ [](\A r \in RunIds : runs[r].pc \in {"uploading", "uploaded"} => Accepted(r))

\* the callback ran twice for one URL: one run was accepted and its upload succeeded, the
\* other was rejected
C18_Witness ==
  \E r, q \in RunIds :
    /\ r # q /\ runs[r].state = runs[q].state
    /\ Accepted(r) /\ runs[r].pc = "done" /\ runs[r].ok
    /\ [run |-> r, pid |-> runs[r].project_id] \in uploads
    /\ runs[q].pc = "done" /\ ~Accepted(q) /\ runs[q].err = "InvalidState"

DeletePending(id) ==
  \E c \in CallSlots : calls[c].st = "sent" /\ calls[c].op = "delete" /\ calls[c].pid = id

\* C20: an entity is deleted only in a step in which none of its jobs is in flight; a job
\* is cancelled only after its cancellation was requested for a deletion; a deleted
\* entity stays deleted, has no job in flight, and no step writes to it or publishes a
\* StatusEvent for it. A deletion that finds a job in flight leads to the request of its
\* cancellation (or the job ends by itself), and every deletion request is answered.
C20_DeleteWaitsForJob ==
  /\ [][/\ \A id \in deleted' \ deleted :
             /\ entity[id].activeJobId = 0 /\ RunningJobs(id) = {}
             /\ DeletePending(id)
        /\ \A j \in 1..Len(jobs) :
             (jobs[j].status = "Running" /\ jobs'[j].status = "Cancelled")
               => j \in cancelRequested
        /\ \A j \in cancelRequested' \ cancelRequested : DeletePending(jobs[j].entityId)
        /\ \A id \in deleted :
             /\ id \in deleted'
             /\ entity'[id] = entity[id]
             /\ {ev \in events' : ev.entityId = id} = {ev \in events : ev.entityId = id}
             /\ \A j \in 1..Len(jobs) : jobs[j].entityId = id => jobs'[j] = jobs[j]]_vars
  /\ [](\A id \in deleted : RunningJobs(id) = {})
  /\ \A id \in Entities :
       (DeletePending(id) /\ entity[id].activeJobId # 0)
         ~> (entity[id].activeJobId = 0 \/ entity[id].activeJobId \in cancelRequested)
  /\ \A c \in CallSlots :
       (calls[c].st = "sent" /\ calls[c].op = "delete") ~> (calls[c].st # "sent")

\* the project whose transcription ran was deleted: the cancellation of the job was
\* requested, the job ended cancelled, and the client dropped the project on display
C20_Witness ==
  /\ WatchedEntity \in deleted
  /\ 1 \in cancelRequested
  /\ jobs[1].status = "Cancelled"
  /\ currentProject = NoProject
  /\ \A c \in CallSlots : calls[c].st = "free"

\* the close event of socket s is dispatched in this step
CloseDispatched(s) == sockets[s].state = "closing" /\ sockets'[s].state # "closing"

\* the reconnect timeouts set in this step
TimersSet == {t \in TimerSlots : ~timers[t].active /\ timers'[t].active}

\* C21 as stated: a close event with a code other than 1000, 4001 and 4003 sets exactly
\* one reconnect timeout, for the project of the closed socket; a close event with one of
\* these codes sets none; and the close event of a socket that the client itself closed
\* sets none.
C21_Original ==
  [][\A s \in SockSlots :
       CloseDispatched(s) =>
         IF sockets[s].code \in NoReconnectCodes \/ sockets[s].closedBy = "client"
           THEN TimersSet = {}
           ELSE /\ Cardinality(TimersSet) = 1
                /\ \A t \in TimersSet : timers'[t].pid = sockets[s].pid]_vars

\* the project id of the last render: the effect of useWebSocket was cleaned up
\* (disconnect) for every earlier project id and run (connect) for this one
RenderedId == pollDeps.id

\* C22 as stated: once disconnect() has run for a project id and the hook serves another
\* one, no reconnect timeout and no ping interval of the old project id is pending, and
\* no socket to the old project id is connecting or open.
C22_Original ==
  /\ \A t \in TimerSlots : timers[t].active => timers[t].pid = RenderedId
  /\ \A s \in SockSlots : sockets[s].ping => sockets[s].pid = RenderedId
  /\ ~leakedPing
  /\ \A s \in LiveSockets : sockets[s].pid = RenderedId

\* the sockets whose ping interval is running
Pinging == {s \in SockSlots : sockets[s].ping}

\* C23 as stated: while the hook's socket is open, its ping interval and no other is
\* running; while no socket is open and no close event is pending, no ping interval is
\* running; so no close event of a replaced socket stops the interval of its successor
\* and no interval outlives its socket.
C23_Original ==
  /\ \A s \in SockSlots :
       (wsRef = s /\ sockets[s].state = "open") => (Pinging = {s} /\ ~leakedPing)
  /\ (\A s \in SockSlots : sockets[s].state \notin {"open", "closing"})
       => (Pinging = {} /\ ~leakedPing)

\* C24 as stated: when no open event and no close event is pending (no socket is
\* connecting or closing), connected is true exactly when the socket wsRef holds is open.
C24_Original ==
  (\A s \in SockSlots : sockets[s].state \notin {"connecting", "closing"})
    => (connected <=> (wsRef # 0 /\ sockets[wsRef].state = "open"))

\* shouldPoll as the last render evaluated it
RenderedShouldPoll ==
  /\ pollDeps.id # Nil
  /\ pollDeps.status \in {"transcribing", "summarizing"}
  /\ ~pollDeps.conn

\* the polling interval fires in this step: a status poll leaves the client
PollIssued ==
  \E c \in CallSlots :
    /\ calls[c].st # "sent" /\ calls'[c].st = "sent"
    /\ calls'[c].op = "status" /\ calls'[c].arg # Nil

\* C25: the polling interval (3000 ms, within the 5 s bound) is running exactly when the
\* last render saw a selected project whose status is transcribing or summarizing and a
\* socket that is not connected, and, once no render is pending, exactly when that holds
\* of the current state; at most one interval is running; and while the interval stays
\* running, polls keep being issued.
C25_PollingFallback ==
  /\ PollIntervalMs <= 5000
  /\ [](pollTimer.running <= 1 /\ (pollTimer.active <=> pollTimer.running = 1))
  /\ [](/\ pollTimer.active <=> RenderedShouldPoll
        /\ pollTimer.active => pollTimer.pid = pollDeps.id)
  /\ [](~dirty => (pollTimer.active <=> shouldPoll))
  /\ (<>[](pollTimer.active) => []<><<PollIssued>>_vars)

\* the socket is lost while the transcription runs, the dashboard has rendered, the
\* fallback interval is running and a poll is in flight
C25_Witness ==
  /\ ~dirty /\ ~connected
  /\ currentProject.status = "transcribing"
  /\ pollTimer.active /\ pollTimer.running = 1
  /\ \E c \in CallSlots :
       calls[c].st = "sent" /\ calls[c].op = "status" /\ calls[c].arg # Nil

\* the continuation of the status query of a poll runs in this step
PollAnswered(c) ==
  /\ calls[c].st = "done" /\ calls[c].op = "status" /\ calls[c].arg # Nil
  /\ calls'[c] # calls[c]

\* the continuation of the fetchProject of a poll runs in this step
FetchAnswered(c) ==
  /\ calls[c].st = "done" /\ calls[c].op = "get" /\ calls[c].arg = "poll"
  /\ calls'[c] # calls[c]

\* C26 as stated: when the polled status equals the status the client holds, the answer
\* changes no client state; when it differs, the project is fetched, becomes
\* currentProject, and the list is fetched; a poll that fails changes no state and leaves
\* the polling interval running.
C26_Original ==
  [][\A c \in CallSlots :
       /\ (PollAnswered(c) /\ calls[c].ok /\ calls[c].data.status = currentProject.status)
            => /\ UNCHANGED <<currentProject, loading, error, dirty>>
               /\ calls'[c] = FreeCall
       /\ (PollAnswered(c) /\ calls[c].ok /\ calls[c].data.status # currentProject.status)
            => /\ calls'[c].st = "sent" /\ calls'[c].op = "get"
               /\ calls'[c].pid = calls[c].pid /\ calls'[c].arg = "poll"
       /\ (FetchAnswered(c) /\ calls[c].ok)
            => /\ currentProject' = AsCurrentProject(calls[c].data)
               /\ calls'[c].st = "sent" /\ calls'[c].op = "list"
       /\ (PollAnswered(c) /\ ~calls[c].ok)
            => /\ UNCHANGED <<currentProject, loading, error, dirty, pollTimer>>
               /\ calls'[c] = FreeCall
    ]_vars

\* C27 as stated: a keepalive text or a text that is no JSON changes no client state,
\* and the socket stays open; a document whose type is not status, completed or error,
\* or one that arrives while no project is selected, leaves currentProject as it is and
\* the dashboard rendering; an applied document changes nothing of currentProject but
\* status, transcription, summary and error_message.
C27_Original ==
  [][\A s \in SockSlots :
       Dispatched(s) =>
         LET frame == Head(sockets[s].inbox)
         IN /\ IsText(frame)
                 => UNCHANGED <<calls, currentProject, loading, error, dirty, renderError>>
            /\ (~IsText(frame) /\ (frame.type \notin UpdateTypes \/ ~currentProject.exists))
                 => UNCHANGED <<currentProject, renderError>>
            /\ (~IsText(frame) /\ frame.type \in UpdateTypes /\ currentProject.exists)
                 => /\ currentProject'.exists /\ currentProject'.id = currentProject.id
                    /\ ~renderError'
    ]_vars

\* ------------------------------------------------------ dashboard controls
StageInProgress(project) == project.status \in {"transcribing", "summarizing"}

\* the Transcribe or the Retry button is rendered and enabled
TranscribeOffered ==
  /\ canTranscribe(currentProject) \/ RetryOffered(currentProject)
  /\ ~loading

\* the Summarize button is rendered and enabled
SummarizeOffered == canSummarize(currentProject) /\ ~loading

\* C28: while the selected project's status is transcribing or summarizing the
\* dashboard offers no control that issues a transcribe or summarize request; the
\* Transcribe or Retry control is offered only in status pending or failed and the
\* Summarize control only when no stage is in progress
C28_Original ==
  /\ StageInProgress(currentProject) => ~TranscribeOffered /\ ~SummarizeOffered
  /\ TranscribeOffered => currentProject.status \in {"pending", "failed"}
  /\ SummarizeOffered => ~StageInProgress(currentProject)

\* the part of C28 about the Transcribe and Retry controls
C28_TranscribeControls ==
  /\ StageInProgress(currentProject) => ~TranscribeOffered
  /\ TranscribeOffered => currentProject.status \in {"pending", "failed"}

\* ------------------------------------------------------ OAuth callback page
\* a run of handleCallback asks for the upload
UploadRequested(r) == runs[r].pc # "uploading" /\ runs'[r].pc = "uploading"

\* the answer of a step that failed is handed to a run of handleCallback
FailureResolves(r) ==
  /\ runs[r].pc \in {"exchanged", "uploaded"}
  /\ ~runs[r].ok
  /\ runs'[r] # runs[r]

\* the URL carries an error parameter or lacks code or state
NoAuthorization == page.loaded /\ (page.denied \/ page.missing)

\* C29: on the OAuth callback page the upload is requested only after
\* completeAuthorization returned successfully, and with the project id and the access
\* token it returned; with an error parameter, or without code or state, neither
\* request is made and the page ends in status error; the page reaches status success
\* only after the upload succeeded; a failure of either step ends in status error and
\* the later step is never attempted.
C29_CallbackStepOrder ==
  /\ [][\A r \in RunIds :
          UploadRequested(r)
            => /\ runs[r].pc = "exchanged" /\ runs[r].ok
               /\ tokens[runs[r].state].state = "consumed"
               /\ runs'[r].project_id = tokens[runs[r].state].pid
               /\ runs'[r].access_token = runs[r].state]_vars
  /\ [](\A r \in RunIds :
          runs[r].pc \in {"uploading", "uploaded"}
            => /\ runs[r].state \in TokenIds
               /\ runs[r].project_id = tokens[runs[r].state].pid
               /\ runs[r].access_token = runs[r].state)
  /\ [](\A u \in uploads : u.pid = tokens[runs[u.run].state].pid)
  /\ [](NoAuthorization
          => /\ \A r \in RunIds : runs[r] = FreeRun
             /\ uploads = {}
             /\ page.effects > 0 => page.status = "error")
  /\ [](page.status = "success"
          => \E u \in uploads : u.run = page.uploadResult /\ runs[u.run].pc = "done")
  /\ [][\A r \in RunIds :
          FailureResolves(r)
            => /\ page'.status = "error"
               /\ runs'[r].pc = "done"
               /\ uploads' = uploads]_vars
  /\ [][\A r \in RunIds : runs[r].pc = "done" => runs'[r] = runs[r]]_vars
  /\ []((/\ page.effects > 0
         /\ \A r \in 1..page.effects : runs[r].pc = "done" /\ ~runs[r].ok)
          => page.status = "error")

\* the page shows success after an exchange that was accepted and an upload that
\* succeeded, in that order, for the project the token was issued for
C29_Witness ==
  /\ page.status = "success"
  /\ page.effects = 1
  /\ runs[1].pc = "done" /\ runs[1].ok
  /\ [run |-> 1, pid |-> tokens[runs[1].state].pid] \in uploads

\* the exchange was rejected: the page shows the error and nothing was uploaded
C29_WitnessExchangeFailed ==
  /\ page.status = "error"
  /\ \E r \in RunIds : runs[r].pc = "done" /\ ~Accepted(r)
  /\ uploads = {}

\* the URL lacks code or state: the page shows the error and made no request
C29_WitnessMissing ==
  /\ page.missing /\ ~page.denied
  /\ page.effects > 0
  /\ page.status = "error"

\* ---------------------------------------------------------- audio recorder
\* C30: after any sequence of startRecording, pauseRecording, resumeRecording,
\* stopRecording and clearRecording, a second startRecording while the first awaits the
\* microphone included, isPaused implies isRecording, at most one duration timer is
\* running, and a duration timer is running if and only if isRecording and not isPaused
C30_Original ==
  /\ recorder.isPaused => recorder.isRecording
  /\ Cardinality(recorder.intervals) <= 1
  /\ recorder.intervals # {} <=> (recorder.isRecording /\ ~recorder.isPaused)

\* the rest of C30: isPaused implies isRecording, the timer the ref holds is running
\* exactly while recording and not paused, and pause, resume and stop act on the
\* MediaRecorder only in the states they apply to
C30_GuardedOperations ==
  /\ [](recorder.isPaused => recorder.isRecording)
  /\ [](recorder.timerRef # 0 <=> (recorder.isRecording /\ ~recorder.isPaused))
  /\ [](recorder.timerRef # 0 => recorder.timerRef \in recorder.intervals)
  /\ [][\A k \in StartIds :
          /\ (recorder.media[k] # "paused" /\ recorder'.media[k] = "paused")
               => /\ recorder.isRecording /\ ~recorder.isPaused
                  /\ recorder.mediaRecorderRef = k /\ recorder.media[k] = "recording"
          /\ (recorder.media[k] = "paused" /\ recorder'.media[k] = "recording")
               => /\ recorder.isRecording /\ recorder.isPaused
                  /\ recorder.mediaRecorderRef = k
          /\ (recorder.media[k] # "stopped" /\ recorder'.media[k] = "stopped")
               => /\ recorder.isRecording /\ recorder.mediaRecorderRef = k
                  /\ recorder.media[k] \in {"recording", "paused"}]_vars

====
